---- MODULE Spec2Model ----
(***************************************************************************)
(* One worker of the streaming TTS fleet: the client connections it        *)
(* serves (server/connection.py), the session handlers multiplexed over    *)
(* them, the worker's session counter (server/health.py) and the upstream  *)
(* pool each connection uses to forward sessions to peer workers.          *)
(*                                                                         *)
(* Every asyncio task is a process of the model.  A step of the model is   *)
(* the code a task runs between two suspension points (awaits that really  *)
(* wait: a queue get on an empty queue, the audio producer, a sleep, a     *)
(* dial, the capacity report).                                             *)
(***************************************************************************)
EXTENDS Integers, Sequences, FiniteSets, TLC

\* ---------------------------------------------------------------- bounds
MaxCapacity == 1
MaxHandlers == MaxCapacity + 1
MaxFrames   == 2

Conns == {"a", "b"}
Sids  == {"s1", "s2", "s3"}
Peers == {"p1", "p2"}
Handlers == 1..MaxHandlers

VARIABLES
    maxSessions, \* Config.max_sessions (RedisHealth._max_sessions)
    hSessions,   \* RedisHealth._sessions
    hClosed,     \* RedisHealth._closed
    internal,    \* WebsocketConnection._internal, per connection
    wsClosed,    \* the client transport's closed flag (ws._closed)
    rl,          \* WebsocketConnection.receive_loop: "run" | "done"
    sessions,    \* WebsocketConnection._sessions: sid -> handler (0: no entry)
    out,         \* frames written to the client transport, per session id
    hd,          \* the session handler objects
    nextH,       \* the next handler object to be constructed
    nIn,         \* client frames read so far
    budget,      \* the frames the client sends in a run
    pconn,       \* ProxyConnections._connections: url -> "none" | "open"
    plock,       \* ProxyConnections._connection_locks: url -> holder (0: free)
    swl,         \* ProxyConnections._session_ws_lookup: sid -> url | "none" | "dead"
    phl,         \* ProxyConnections._proxy_handle_lookup: sid -> handler (0: none)
    pst,         \* the peer's side of an upstream connection, per session id
    password,    \* the --password option of the worker ("": none)
    req,         \* the Authorization header of each connection's upgrade request
    servers,     \* ServiceHealthRepository._servers, in the dict's order
    server_updated_time, \* _server_updated_time: url -> age (now - updated)
    running,     \* Controller.start was called
    cleanup_task, \* ServiceHealthRepository._cleanup_task exists
    dropped,     \* frames _run_connection logged as "Handle not found"
    input,       \* the text still to be pushed into the SentenceSplitter
    pushed,      \* the text pushed into the SentenceSplitter so far
    buffer,      \* SentenceSplitter._buffer
    returned,    \* the sentences push and eos returned so far, in order
    eos_called,  \* SentenceSplitter.eos has returned
    content,     \* the argument of merge_sentences
    merged       \* the result of merge_sentences (<<"?">>: not called yet)

\* What the steps of the sessions leave alone: the worker's password, the
\* upgrade requests that made the connections, and the controller.
\* The sentence tokenizer's variables.
tvars == <<input, pushed, buffer, returned, eos_called, content, merged>>

kvars == <<password, req, servers, server_updated_time, running,
          cleanup_task, dropped, tvars>>
cvars == <<kvars, maxSessions, hSessions, hClosed, internal, wsClosed, rl,
          sessions, nextH, nIn, budget>>
pvars == <<pconn, plock, swl, phl, pst>>
vars == <<cvars, out, hd, pvars>>

\* ---------------------------------------------------------------- frames
\* SendMessage frames (and None, the queues' end marker)
NoneMsg  == "none"
EosMsg   == "eos"
PushMsg  == "push"
MoreMsg  == "more"
StartMsg == "start"

\* The texts a client pushes.
Texts == {PushMsg, MoreMsg}

\* ReceiveMessage frames; h is the handler that wrote the frame (0: the
\* connection's receive loop), n the position of an AudioData's chunk in
\* what the model session produced (0 for the other frames).
AudioFrame(h, n) == [t |-> "audio", m |-> "", h |-> h, n |-> n]
FinishedFrame(h) == [t |-> "finished", m |-> "", h |-> h, n |-> 0]
ErrorFrame(h, m) == [t |-> "error", m |-> m, h |-> h, n |-> 0]
\* None on a ProxyHandle's message queue
NoneFrame        == [t |-> "none", m |-> "", h |-> 0, n |-> 0]

\* A handler object that has not been constructed.  arrived is the frames
\* the receive loop handed to the handler, delivered the texts a Local
\* handler pushed to its model session, or the frames a Remote handler
\* wrote to its peer.
FreeHandler ==
    [kind |-> "free", conn |-> "a", sid |-> "s1",
     closed |-> FALSE, eos |-> FALSE, inq |-> <<>>,
     pc |-> "none", sl |-> "none",
     eosCalled |-> FALSE, chunks |-> 0,
     cands |-> <<>>, ci |-> 1, dest |-> "none",
     mq |-> <<>>, rcv |-> "none",
     arrived |-> <<>>, delivered |-> <<>>]

\* LocalWebsocketSession.__init__
NewLocal(c, sid) ==
    [FreeHandler EXCEPT !.kind = "local", !.conn = c, !.sid = sid]

\* RemoteWebsocketSession.__init__
NewRemote(c, sid, cands) ==
    [FreeHandler EXCEPT !.kind = "remote", !.conn = c, !.sid = sid,
                        !.cands = cands]

\* ---------------------------------------------------------------- health
\* Two slips of the comparison in can_accept_session.
can_accept_at_limit ==
    IF hClosed THEN FALSE ELSE hSessions <= maxSessions

can_accept_below_limit ==
    IF hClosed THEN FALSE ELSE hSessions + 1 < maxSessions

\* RedisHealth.can_accept_session
can_accept_session ==
    IF hClosed THEN FALSE ELSE hSessions < maxSessions

\* RedisHealth.add_session: the counter part (the report follows it)
add_session(n) == n + 1

\* RedisHealth.remove_session: the counter part
remove_session(n) == IF n - 1 > 0 THEN n - 1 ELSE 0

\* ---------------------------------------------------------------- writes
\* ws.send_bytes on an open transport: the frame is appended to what the
\* client reads for that session id.
WsSend(o, c, sid, f) == [o EXCEPT ![c][sid] = Append(@, f)]

\* LocalWebsocketSession.close
LocalClose(r) == [r EXCEPT !.closed = TRUE, !.inq = Append(@, NoneMsg)]

\* RemoteWebsocketSession.close
RemoteClose(r) ==
    [r EXCEPT !.inq = Append(@, NoneMsg),
              !.mq = IF r.dest # "none" THEN Append(@, NoneFrame) ELSE @]

SessionClose(r) ==
    IF r.kind = "local" THEN LocalClose(r)
    ELSE IF r.kind = "remote" THEN RemoteClose(r)
    ELSE r

\* The peer has no handler for the session id.
NoPeerSession == [st |-> "none", chunks |-> 0, made |-> 0]

\* The Authorization header f"Bearer {password}" that a peer worker's dial
\* carries (ProxyConnections._create_connection).
Authorization(p) == "Bearer " \o p

\* No --password option (cli.py: the empty string stands for none).
NoPassword == ""

\* The headers an upgrade request may carry: none, the worker's, another.
Headers == {"", Authorization("pw"), Authorization("bad")}

\* A controller as constructed: Controller.__init__ makes an empty
\* ServiceHealthRepository, whose cleanup task does not exist yet.
InitController ==
    /\ servers = <<>>
    /\ server_updated_time = <<>>
    /\ running = FALSE
    /\ cleanup_task = FALSE

\* A worker as constructed, before any frame was read.
InitWorker ==
    /\ maxSessions \in 0..MaxCapacity
    /\ dropped = 0
    /\ hSessions = 0
    /\ hClosed = FALSE
    /\ wsClosed = [c \in Conns |-> FALSE]
    /\ sessions = [c \in Conns |-> [s \in Sids |-> 0]]
    /\ out = [c \in Conns |-> [s \in Sids |-> <<>>]]
    /\ hd = [h \in Handlers |-> FreeHandler]
    /\ nextH = 1
    /\ nIn = 0
    /\ pconn = [c \in Conns |-> [u \in Peers |-> "none"]]
    /\ plock = [c \in Conns |-> [u \in Peers |-> 0]]
    /\ swl = [c \in Conns |-> [s \in Sids |-> "none"]]
    /\ phl = [c \in Conns |-> [s \in Sids |-> 0]]
    /\ pst = [c \in Conns |-> [u \in Peers |-> [s \in Sids |-> NoPeerSession]]]

\* merge_sentences was not called.
NotMerged == <<"?">>

\* No text is being split or merged.
NoSentences ==
    /\ input = <<>>
    /\ pushed = <<>>
    /\ buffer = <<>>
    /\ returned = <<>>
    /\ eos_called = FALSE
    /\ content = <<>>
    /\ merged = NotMerged

\* A worker without a password whose two connections were upgraded from
\* requests without a header.
InitCommon ==
    /\ NoSentences
    /\ password = NoPassword
    /\ req = [c \in Conns |-> ""]
    /\ rl = [c \in Conns |-> "run"]
    /\ InitController
    /\ InitWorker

\* ------------------------------------------------------- the connection
\* The client's session ids are interchangeable: it uses "s2" on a
\* connection only once it has used "s1" there, and "s3" once it has used
\* "s2" (every frame read leaves a handler or an answer behind).
Seen(c, sid) ==
    \/ out[c][sid] # <<>>
    \/ \E h \in Handlers : hd[h].kind # "free" /\ hd[h].conn = c /\ hd[h].sid = sid

\* receive_loop has a frame of the session id to read.
Reads(c, sid) ==
    /\ rl[c] = "run" /\ ~wsClosed[c] /\ nIn < budget
    /\ sid = "s2" => Seen(c, "s1")
    /\ sid = "s3" => Seen(c, "s2")

\* WebsocketConnection._handle_start_session, first branch: the local check
\* passed.  The handler is registered, the counter incremented and the
\* capacity report awaited; the run task is created only once the report
\* returned.  A report that raises (the store is unreachable) leaves
\* _handle_start_session through the receive loop's generic handler,
\* which closes the transport.
StartLocal(c, sid) ==
    /\ Reads(c, sid)
    /\ nextH <= MaxHandlers
    /\ can_accept_session
    /\ \E reported \in BOOLEAN :
          /\ hd' = [hd EXCEPT ![nextH] =
                      [NewLocal(c, sid) EXCEPT
                          !.pc = IF reported THEN "start" ELSE "norun"]]
          /\ wsClosed' = [wsClosed EXCEPT ![c] = ~reported]
    /\ sessions' = [sessions EXCEPT ![c][sid] = nextH]
    /\ hSessions' = add_session(hSessions)
    /\ nextH' = nextH + 1
    /\ nIn' = nIn + 1
    /\ UNCHANGED <<kvars, maxSessions, budget, hClosed, internal, rl, out, pvars>>

\* A connection that forwards whatever its flag.
ForwardingAlways(c) == TRUE

\* connection.py line 120: only a connection that is not internal forwards.
ForwardingAllowed(c) == ~internal[c]

\* _handle_start_session, second branch, with receive_loop's handler of
\* NoCapacityError: no local capacity on an internal connection.
StartInternalFull(c, sid) ==
    /\ Reads(c, sid)
    /\ ~can_accept_session
    /\ ~ForwardingAllowed(c)
    /\ out' = WsSend(out, c, sid, ErrorFrame(0, "No capacity"))
    /\ nIn' = nIn + 1
    /\ UNCHANGED <<kvars, maxSessions, budget, hSessions, hClosed, internal, wsClosed, rl, sessions,
                   hd, nextH, pvars>>

\* A handler that puts what it is handed at the head of its input queue.
handle_message_front(r, msg) ==
    IF r.kind = "remote" THEN [r EXCEPT !.inq = <<msg>> \o @]
    ELSE IF r.closed THEN r
    ELSE IF msg = EosMsg
         THEN [r EXCEPT !.eos = TRUE, !.inq = <<NoneMsg>> \o @]
         ELSE [r EXCEPT !.inq = <<msg>> \o @]

\* receive_loop, a PushText or Eos frame: the handler is looked up by the
\* frame's session id; without one, "Session not found" is written.
\* LocalWebsocketSession.handle_message / RemoteWebsocketSession.handle_message
handle_message(r, msg) ==
    IF r.kind = "remote" THEN [r EXCEPT !.inq = Append(@, msg)]
    ELSE IF r.closed THEN r
    ELSE IF msg = EosMsg
         THEN [r EXCEPT !.eos = TRUE, !.inq = Append(@, NoneMsg)]
         ELSE [r EXCEPT !.inq = Append(@, msg)]

\* The answer written twice.
NotFoundTwice ==
    <<ErrorFrame(0, "Session not found"), ErrorFrame(0, "Session not found")>>

\* receive_loop's answer to a frame of an unknown session id.
NotFoundFrames == <<ErrorFrame(0, "Session not found")>>

ClientFrame(c, sid, msg) ==
    /\ Reads(c, sid)
    /\ nIn' = nIn + 1
    /\ IF sessions[c][sid] = 0
       THEN /\ out' = [out EXCEPT ![c][sid] = @ \o NotFoundFrames]
            /\ hd' = hd
       ELSE /\ hd' = [hd EXCEPT ![sessions[c][sid]] =
                       handle_message([@ EXCEPT !.arrived = Append(@, msg)], msg)]
            /\ out' = out
    /\ UNCHANGED <<kvars, maxSessions, budget, hSessions, hClosed, internal, wsClosed, rl, sessions,
                   nextH, pvars>>

ClientPush(c, sid) == ClientFrame(c, sid, PushMsg)

ClientEos(c, sid) == ClientFrame(c, sid, EosMsg)

\* WebSocketServer.internal_websocket_handler / public_websocket_handler:
\* the request is upgraded (ws.prepare) and a WebsocketConnection made,
\* whose __init__ creates the receive task, whatever headers the request
\* carries; the handlers read none.
Upgrade(c, header) ==
    /\ rl[c] = "none"
    /\ rl' = [rl EXCEPT ![c] = "run"]
    /\ req' = [req EXCEPT ![c] = header]
    /\ UNCHANGED <<tvars, password, servers, server_updated_time,
                   running, cleanup_task, dropped, maxSessions,
                   budget, hSessions, hClosed, internal, wsClosed, sessions, out, hd,
                   nextH, nIn, pvars>>

\* A connection that answers an undecodable frame with an Error and reads
\* on.
MalformedAnswered(c) ==
    /\ rl[c] = "run" /\ ~wsClosed[c] /\ nIn < budget
    /\ nIn' = nIn + 1
    /\ out' = WsSend(out, c, "s1", ErrorFrame(0, "Malformed"))
    /\ UNCHANGED <<kvars, maxSessions, budget, hSessions, hClosed, internal,
                   wsClosed, rl, sessions, hd, nextH, pvars>>

\* receive_loop reads a frame that SendMessage.FromString cannot decode:
\* the DecodeError reaches the generic handler, which closes the transport.
MalformedFrame(c) ==
    /\ rl[c] = "run" /\ ~wsClosed[c] /\ nIn < budget
    /\ nIn' = nIn + 1
    /\ wsClosed' = [wsClosed EXCEPT ![c] = TRUE]
    /\ UNCHANGED <<kvars, maxSessions, budget, hSessions, hClosed, internal, rl,
                   sessions, out, hd, nextH, pvars>>

\* The client transport closes: the client disconnects, or stop_server
\* calls WebsocketConnection.close.
TransportClose(c) ==
    /\ rl[c] = "run" /\ ~wsClosed[c]
    /\ wsClosed' = [wsClosed EXCEPT ![c] = TRUE]
    /\ UNCHANGED <<kvars, maxSessions, budget, hSessions, hClosed, internal, rl, sessions, out, hd,
                   nextH, nIn, pvars>>

\* receive_loop after the transport closed: every handler in the session
\* table is closed.
ReceiveLoopEnd(c) ==
    /\ rl[c] = "run" /\ wsClosed[c]
    /\ rl' = [rl EXCEPT ![c] = "done"]
    /\ hd' = [h \in Handlers |->
                IF \E s \in Sids : sessions[c][s] = h
                THEN SessionClose(hd[h]) ELSE hd[h]]
    /\ UNCHANGED <<kvars, maxSessions, budget, hSessions, hClosed, internal, wsClosed, sessions, out,
                   nextH, nIn, pvars>>

\* RedisHealth.close
HealthClose ==
    /\ ~hClosed
    /\ hClosed' = TRUE
    /\ UNCHANGED <<kvars, maxSessions, budget, hSessions, internal, wsClosed, rl, sessions, out, hd,
                   nextH, nIn, pvars>>

\* ---------------------------------------------------- the session model
\* The model session (models.BaseSessionHandle; the mock the server tests
\* run against): every pushed text yields one audio chunk, eos yields a
\* last chunk, and the producer ends once eos was called and every chunk
\* was taken.
ModelPush(r, msg) ==
    [r EXCEPT !.chunks = @ + 1, !.delivered = Append(@, msg)]

ModelEos(r) == [r EXCEPT !.eosCalled = TRUE, !.chunks = @ + 1]

ProducerEnded(r) == r.eosCalled /\ r.chunks = 0

\* The chunks the model session has produced, and the position of the one
\* the audio loop takes next.
Produced(r) == Len(r.delivered) + IF r.eosCalled THEN 1 ELSE 0

NextChunk(r) == Produced(r) - r.chunks + 1

\* ------------------------------------------------- LocalWebsocketSession
IsLocal(h) == hd[h].kind = "local"

\* WebsocketConnection._run_session after ws_sess.run() returned or raised:
\* the id's table entry is popped and the counter decremented.
RunEpilogue(h, r) ==
    /\ hd' = [hd EXCEPT ![h] = [r EXCEPT !.pc = "done"]]
    /\ sessions' = [sessions EXCEPT ![r.conn][r.sid] = 0]
    /\ hSessions' = remove_session(hSessions)

\* _run_session's except branch: ws_sess.close() before the epilogue.
RunRaised(h, r) == RunEpilogue(h, LocalClose(r))

\* LocalWebsocketSession.run up to the audio loop: the model session is
\* opened (create_session may raise) and the send task created.
LocalRunStart(h) ==
    /\ IsLocal(h) /\ hd[h].pc = "start"
    /\ \E opened \in BOOLEAN :
          IF opened
          THEN /\ hd' = [hd EXCEPT ![h].pc = "stream", ![h].sl = "run"]
               /\ UNCHANGED <<sessions, hSessions>>
          ELSE RunRaised(h, hd[h])
    /\ UNCHANGED <<kvars, maxSessions, budget, hClosed, internal, wsClosed, rl, out, nextH, nIn, pvars>>

\* A send loop that calls eos at None and goes on reading.
SendLoopOn(h) ==
    /\ IsLocal(h) /\ hd[h].sl = "run" /\ hd[h].inq # <<>>
    /\ LET msg == Head(hd[h].inq)
           r == [hd[h] EXCEPT !.inq = Tail(@)]
       IN hd' = [hd EXCEPT ![h] =
                    IF msg = NoneMsg THEN ModelEos(r) ELSE ModelPush(r, msg)]
    /\ UNCHANGED <<kvars, maxSessions, budget, hSessions, hClosed, internal, wsClosed,
                   rl, sessions, out, nextH, nIn, pvars>>

\* send_loop: one message of the input queue.  None ends the loop and
\* calls eos on the model session; a PushText is pushed to it.
SendLoop(h) ==
    /\ IsLocal(h) /\ hd[h].sl = "run" /\ hd[h].inq # <<>>
    /\ LET msg == Head(hd[h].inq)
           r == [hd[h] EXCEPT !.inq = Tail(@)]
       IN hd' = [hd EXCEPT ![h] =
                    IF msg = NoneMsg
                    THEN [ModelEos(r) EXCEPT !.sl = "done"]
                    ELSE ModelPush(r, msg)]
    /\ UNCHANGED <<kvars, maxSessions, budget, hSessions, hClosed, internal, wsClosed, rl, sessions,
                   out, nextH, nIn, pvars>>

\* run, one turn of "async for msg in self._session_handle": the chunk is
\* written as AudioData unless the handler is closed; a write on a closed
\* transport raises and ends run.
LocalAudio(h) ==
    /\ IsLocal(h) /\ hd[h].pc = "stream" /\ hd[h].chunks > 0
    /\ LET r == [hd[h] EXCEPT !.chunks = @ - 1]
       IN IF r.closed
          THEN /\ hd' = [hd EXCEPT ![h] = r]
               /\ UNCHANGED <<sessions, hSessions, out>>
          ELSE IF wsClosed[r.conn]
          THEN /\ RunRaised(h, r)
               /\ out' = out
          ELSE /\ hd' = [hd EXCEPT ![h] = r]
               /\ out' = WsSend(out, r.conn, r.sid,
                                AudioFrame(h, NextChunk(hd[h])))
               /\ UNCHANGED <<sessions, hSessions>>
    /\ UNCHANGED <<kvars, maxSessions, budget, hClosed, internal, wsClosed, rl, nextH, nIn, pvars>>

\* A run that ends without writing Finished.
LocalFinishSilent(h) ==
    /\ IsLocal(h) /\ hd[h].pc = "stream" /\ ProducerEnded(hd[h])
    /\ hd[h].sl = "done"
    /\ RunEpilogue(h, [hd[h] EXCEPT !.closed = TRUE])
    /\ UNCHANGED <<kvars, maxSessions, budget, hClosed, internal, wsClosed, rl, out,
                   nextH, nIn, pvars>>

\* run after the producer ended: Finished is written unless the handler is
\* closed, the (finished) send task is awaited, _closed is set and
\* _run_session's epilogue runs.
LocalFinish(h) ==
    /\ IsLocal(h) /\ hd[h].pc = "stream" /\ ProducerEnded(hd[h])
    /\ hd[h].sl = "done"
    /\ LET r == hd[h]
       IN IF r.closed
          THEN /\ RunEpilogue(h, r)
               /\ out' = out
          ELSE IF wsClosed[r.conn]
          THEN /\ RunRaised(h, r)
               /\ out' = out
          ELSE /\ RunEpilogue(h, [r EXCEPT !.closed = TRUE])
               /\ out' = WsSend(out, r.conn, r.sid, FinishedFrame(h))
    /\ UNCHANGED <<kvars, maxSessions, budget, hClosed, internal, wsClosed, rl, nextH, nIn, pvars>>

\* inactivity_loop, a timer that fired: _closed is set, the Error written
\* if the transport is open, None put on the input queue.  The loop runs
\* while _closed is false, so a handler that is closed has no timer left.
\* Time is not part of the state: whether now - _last_input (or
\* now - _last_output) exceeds the configured timeout at a turn of the
\* loop is a choice of the environment.
\* A timer that writes its Error and ends the input without closing the
\* handler.
TimerFireOpen(h, m) ==
    /\ hd' = [hd EXCEPT ![h].inq = Append(@, NoneMsg)]
    /\ out' = IF wsClosed[hd[h].conn] THEN out
              ELSE WsSend(out, hd[h].conn, hd[h].sid, ErrorFrame(h, m))
    /\ UNCHANGED <<kvars, maxSessions, budget, hSessions, hClosed, internal, wsClosed,
                   rl, sessions, nextH, nIn, pvars>>

TimerFire(h, m) ==
    /\ hd' = [hd EXCEPT ![h] = LocalClose(@)]
    /\ out' = IF wsClosed[hd[h].conn] THEN out
              ELSE WsSend(out, hd[h].conn, hd[h].sid, ErrorFrame(h, m))
    /\ UNCHANGED <<kvars, maxSessions, budget, hSessions, hClosed, internal, wsClosed, rl, sessions,
                   nextH, nIn, pvars>>

\* An input timer that ignores _eos.
InputTimeoutAfterEos(h) ==
    /\ IsLocal(h) /\ ~hd[h].closed
    /\ TimerFire(h, "Inactivity timeout")

InputTimeout(h) ==
    /\ IsLocal(h) /\ ~hd[h].closed /\ ~hd[h].eos
    /\ TimerFire(h, "Inactivity timeout")

OutputTimeout(h) ==
    /\ IsLocal(h) /\ ~hd[h].closed
    /\ TimerFire(h, "Output timeout")

\* ------------------------------------------------------- the upstream
\* HealthAgent.available_peers (ControllerHealth.query_available_servers):
\* the ranked candidate list, without the worker's own url, possibly empty.
CandidateLists == {<<>>, <<"p1">>, <<"p1", "p2">>}

\* A refusal that also closes the client transport.
StartForwardClosing(c, sid, cands) ==
    /\ Reads(c, sid)
    /\ ~can_accept_session
    /\ ForwardingAllowed(c)
    /\ IF Len(cands) = 0
       THEN /\ out' = WsSend(out, c, sid, ErrorFrame(0, "No capacity"))
            /\ wsClosed' = [wsClosed EXCEPT ![c] = TRUE]
            /\ UNCHANGED <<hd, sessions, nextH>>
       ELSE /\ nextH <= MaxHandlers
            /\ hd' = [hd EXCEPT ![nextH] =
                        [NewRemote(c, sid, cands) EXCEPT !.pc = "start"]]
            /\ sessions' = [sessions EXCEPT ![c][sid] = nextH]
            /\ nextH' = nextH + 1
            /\ UNCHANGED <<out, wsClosed>>
    /\ nIn' = nIn + 1
    /\ UNCHANGED <<kvars, maxSessions, budget, hSessions, hClosed, internal, rl, pvars>>

\* _handle_start_session, third branch: no local capacity on a connection
\* that may forward.  An empty candidate list raises NoCapacityError, which
\* receive_loop answers with "No capacity"; otherwise a Remote handler is
\* registered and its run task created.
StartForward(c, sid, cands) ==
    /\ Reads(c, sid)
    /\ ~can_accept_session
    /\ ForwardingAllowed(c)
    /\ IF Len(cands) = 0
       THEN /\ out' = WsSend(out, c, sid, ErrorFrame(0, "No capacity"))
            /\ UNCHANGED <<hd, sessions, nextH>>
       ELSE /\ nextH <= MaxHandlers
            /\ hd' = [hd EXCEPT ![nextH] =
                        [NewRemote(c, sid, cands) EXCEPT !.pc = "start"]]
            /\ sessions' = [sessions EXCEPT ![c][sid] = nextH]
            /\ nextH' = nextH + 1
            /\ out' = out
    /\ nIn' = nIn + 1
    /\ UNCHANGED <<kvars, maxSessions, budget, hSessions, hClosed, internal, wsClosed, rl, pvars>>

\* _handle_start_session, second branch, when the query for the candidates
\* raises (RedisHealth.query_available_servers awaits the store and catches
\* nothing): the exception is no NoCapacityError, so it leaves through
\* receive_loop's generic handler, which closes the transport.  Nothing is
\* registered and nothing written.
StartQueryFails(c, sid) ==
    /\ Reads(c, sid)
    /\ ~can_accept_session
    /\ ForwardingAllowed(c)
    /\ wsClosed' = [wsClosed EXCEPT ![c] = TRUE]
    /\ nIn' = nIn + 1
    /\ UNCHANGED <<kvars, maxSessions, budget, hSessions, hClosed, internal, rl, sessions, out, hd,
                   nextH, pvars>>

IsRemote(h) == hd[h].kind = "remote"

\* The peer worker reads a SendMessage frame on its internal connection
\* (WebsocketConnection.receive_loop there): the new state of its session
\* and the frames it answers with.
PeerReads(p, msg, admit) ==
    IF msg = StartMsg
    THEN IF admit
         THEN [p |-> [st |-> "live", chunks |-> 0, made |-> 0], reply |-> <<>>]
         ELSE [p |-> p, reply |-> <<ErrorFrame(0, "No capacity")>>]
    ELSE IF p.st = "none"
    THEN [p |-> p, reply |-> <<ErrorFrame(0, "Session not found")>>]
    ELSE IF p.st = "eos"
    THEN [p |-> p, reply |-> <<>>]
    ELSE IF msg = EosMsg
    THEN [p |-> [st |-> "eos", chunks |-> p.chunks + 1, made |-> p.made + 1],
          reply |-> <<>>]
    ELSE [p |-> [p EXCEPT !.chunks = @ + 1, !.made = @ + 1], reply |-> <<>>]

\* A routing that puts the frames at the head of the handle's queue.
RouteUpFront(ph, c, sid, frames, h, r) ==
    [g \in Handlers |->
        LET base == IF g = h THEN r ELSE hd[g]
        IN IF g = ph[c][sid] THEN [base EXCEPT !.mq = frames \o @] ELSE base]

\* A routing that hands the frames to every Remote handler of the
\* connection.
RouteUpAll(ph, c, sid, frames, h, r) ==
    [g \in Handlers |->
        LET base == IF g = h THEN r ELSE hd[g]
        IN IF base.kind = "remote" /\ base.conn = c
           THEN [base EXCEPT !.mq = @ \o frames] ELSE base]

\* ProxyConnections._run_connection, one frame read from the upstream: it
\* is put on the queue of the handle registered for its session id (ph is
\* _proxy_handle_lookup), or dropped when there is none.  r is what the
\* handler h is becoming in the same step.
RouteUp(ph, c, sid, frames, h, r) ==
    [g \in Handlers |->
        LET base == IF g = h THEN r ELSE hd[g]
        IN IF g = ph[c][sid] THEN [base EXCEPT !.mq = @ \o frames] ELSE base]

\* ProxyHandle.send_message / ProxyConnections.send_message: the frame is
\* written to the connection the session is bound to (sw is
\* _session_ws_lookup); the peer reads it.  The write raises when the
\* session has no connection or the connection is closed.
CanSendUp(sw, open, c, sid) == sw[c][sid] \in Peers /\ sw[c][sid] \in open

SendUp(h, msg, r, sw, ph) ==
    LET c == hd[h].conn
        sid == hd[h].sid
        u == sw[c][sid]
    IN \E admit \in BOOLEAN :
          LET res == PeerReads(pst[c][u][sid], msg, admit)
          IN /\ pst' = [pst EXCEPT ![c][u][sid] = res.p]
             /\ hd' = RouteUp(ph, c, sid, res.reply, h, r)

\* The urls of the live pooled connections of connection c.
OpenConnections(c) == {u \in Peers : pconn[c][u] = "open"}

\* A pool that dials the candidate at hand whether or not it holds a live
\* connection to it.
NextDialAlways(cands, i, open) ==
    IF i <= Len(cands) THEN i ELSE Len(cands) + 1

\* ProxyConnections._get_or_create_connection, its first check: the first
\* candidate from position i on that has no live pooled connection
\* (Len + 1: there is none).  The candidates before it are leased without
\* waiting.
NextDial(cands, i, open) ==
    LET S == {j \in i..Len(cands) : cands[j] \notin open}
    IN IF S = {} THEN Len(cands) + 1
       ELSE CHOOSE j \in S : \A k \in S : j <= k

\* RemoteWebsocketSession.run, the loop over the candidates from position
\* i on, up to the next await that waits.  Every candidate with a live
\* pooled connection is leased (start_proxy sets the session's lookups and
\* a new ProxyHandle replaces the handler's _proxy_handle); at the first
\* one without, the url's lock is taken and the dial begins
\* (_create_connection awaits ws_connect), or the lock is waited for.
\* After the last candidate run raises without a handle; otherwise
\* StartSession is sent to the peer, the receive task created and the input
\* loop entered.  open and locks are the pool's live connections and locks
\* as the step found or left them.
RemoteLoop(h, r, i, open, locks) ==
    LET c == r.conn
        sid == r.sid
        j == NextDial(r.cands, i, open)
        leased == j > i
        r1 == IF leased
              THEN [r EXCEPT !.dest = r.cands[j - 1], !.mq = <<>>, !.ci = j]
              ELSE [r EXCEPT !.ci = j]
        sw == IF leased THEN [swl EXCEPT ![c][sid] = r.cands[j - 1]] ELSE swl
        ph == IF leased THEN [phl EXCEPT ![c][sid] = h] ELSE phl
    IN /\ swl' = sw
       /\ phl' = ph
       /\ IF j <= Len(r.cands)
          THEN /\ pst' = pst
               /\ IF locks[c][r.cands[j]] = 0
                  THEN /\ plock' = [locks EXCEPT ![c][r.cands[j]] = h]
                       /\ hd' = [hd EXCEPT ![h] = [r1 EXCEPT !.pc = "dialing"]]
                  ELSE /\ plock' = locks
                       /\ hd' = [hd EXCEPT ![h] = [r1 EXCEPT !.pc = "cand"]]
          ELSE /\ plock' = locks
               /\ IF r1.dest = "none" \/ ~CanSendUp(sw, open, c, sid)
                  THEN /\ pst' = pst
                       /\ hd' = [hd EXCEPT ![h] = [r1 EXCEPT !.pc = "failed"]]
                  ELSE SendUp(h, StartMsg,
                              [r1 EXCEPT !.pc = "relay", !.rcv = "run"], sw, ph)

\* run from its creation.
RemoteRun(h) ==
    /\ IsRemote(h) /\ hd[h].pc = "start"
    /\ RemoteLoop(h, hd[h], hd[h].ci, OpenConnections(hd[h].conn), plock)
    /\ UNCHANGED <<cvars, out, pconn>>

\* run from a wait for a url's lock, once the lock is free.
RemoteLockFree(h) ==
    /\ IsRemote(h) /\ hd[h].pc = "cand"
    /\ plock[hd[h].conn][hd[h].cands[hd[h].ci]] = 0
    /\ RemoteLoop(h, hd[h], hd[h].ci, OpenConnections(hd[h].conn), plock)
    /\ UNCHANGED <<cvars, out, pconn>>

\* _get_or_create_connection when _create_connection returned or raised:
\* the lock is released, and run's loop goes on with this candidate leased,
\* or skipped when the dial failed (start_proxy raises, the loop logs it).
RemoteDialed(h) ==
    /\ IsRemote(h) /\ hd[h].pc = "dialing"
    /\ LET c == hd[h].conn
           u == hd[h].cands[hd[h].ci]
           released == [plock EXCEPT ![c][u] = 0]
       IN \E connected \in BOOLEAN :
             IF connected
             THEN /\ pconn' = [pconn EXCEPT ![c][u] = "open"]
                  /\ RemoteLoop(h, hd[h], hd[h].ci,
                                OpenConnections(c) \cup {u}, released)
             ELSE /\ pconn' = pconn
                  /\ RemoteLoop(h, hd[h], hd[h].ci + 1, OpenConnections(c),
                                released)
    /\ UNCHANGED <<cvars, out>>

\* An input loop that runs from the creation of the handler, beside the
\* dial.
RemoteForwardEarly(h) ==
    /\ IsRemote(h) /\ hd[h].pc \in {"dialing", "relay"} /\ hd[h].inq # <<>>
    /\ LET msg == Head(hd[h].inq)
           r == [hd[h] EXCEPT !.inq = Tail(@)]
       IN IF msg = NoneMsg
          THEN /\ hd' = [hd EXCEPT ![h] = [r EXCEPT !.pc = "join"]]
               /\ pst' = pst
          ELSE IF ~CanSendUp(swl, OpenConnections(r.conn), r.conn, r.sid)
          THEN /\ hd' = [hd EXCEPT ![h] = [r EXCEPT !.pc = "failed"]]
               /\ pst' = pst
          ELSE SendUp(h, msg, [r EXCEPT !.delivered = Append(@, msg)],
                      swl, phl)
    /\ UNCHANGED <<cvars, out, pconn, plock, swl, phl>>

\* run, the input loop: one message of the input queue.  None ends the
\* loop; any other frame is sent to the peer.
RemoteForward(h) ==
    /\ IsRemote(h) /\ hd[h].pc = "relay" /\ hd[h].inq # <<>>
    /\ LET msg == Head(hd[h].inq)
           r == [hd[h] EXCEPT !.inq = Tail(@)]
       IN IF msg = NoneMsg
          THEN /\ hd' = [hd EXCEPT ![h] = [r EXCEPT !.pc = "join"]]
               /\ pst' = pst
          ELSE IF ~CanSendUp(swl, OpenConnections(r.conn), r.conn, r.sid)
          THEN /\ hd' = [hd EXCEPT ![h] = [r EXCEPT !.pc = "failed"]]
               /\ pst' = pst
          ELSE SendUp(h, msg, [r EXCEPT !.delivered = Append(@, msg)],
                      swl, phl)
    /\ UNCHANGED <<cvars, out, pconn, plock, swl, phl>>

\* A receive task that takes the peer's frames and writes none.
RemoteReceiveMute(h) ==
    /\ IsRemote(h) /\ hd[h].rcv = "run" /\ hd[h].mq # <<>>
    /\ hd' = [hd EXCEPT ![h].mq = Tail(@)]
    /\ UNCHANGED <<cvars, out, pvars>>

\* run's receive_loop task: one message of the handle's queue.  None ends
\* it; any other frame is written to the client as it is.
RemoteReceive(h) ==
    /\ IsRemote(h) /\ hd[h].rcv = "run" /\ hd[h].mq # <<>>
    /\ LET f == Head(hd[h].mq)
           r == [hd[h] EXCEPT !.mq = Tail(@)]
       IN IF f = NoneFrame
          THEN /\ hd' = [hd EXCEPT ![h] = [r EXCEPT !.rcv = "done"]]
               /\ out' = out
          ELSE IF wsClosed[r.conn]
          THEN /\ hd' = [hd EXCEPT ![h] = [r EXCEPT !.rcv = "failed"]]
               /\ out' = out
          ELSE /\ hd' = [hd EXCEPT ![h] = r]
               /\ out' = WsSend(out, r.conn, r.sid, [f EXCEPT !.h = h])
    /\ UNCHANGED <<cvars, pvars>>

\* run, "await receive_task" after the input loop ended.
RemoteJoin(h) ==
    /\ IsRemote(h) /\ hd[h].pc = "join" /\ hd[h].rcv \in {"done", "failed"}
    /\ hd' = [hd EXCEPT ![h].pc = IF hd[h].rcv = "done" THEN "done"
                                  ELSE "failed"]
    /\ UNCHANGED <<cvars, out, pvars>>

\* The peer's Local handler for the session writes a frame
\* (LocalWebsocketSession.run / inactivity_loop on the peer), which
\* _run_connection routes.
PeerWrites(c, u, sid, p, f) ==
    /\ pst' = [pst EXCEPT ![c][u][sid] = p]
    /\ hd' = RouteUp(phl, c, sid, <<f>>, 0, FreeHandler)
    /\ UNCHANGED <<cvars, out, pconn, plock, swl, phl>>

PeerAudio(c, u, sid) ==
    /\ pconn[c][u] = "open"
    /\ pst[c][u][sid].st # "none" /\ pst[c][u][sid].chunks > 0
    /\ PeerWrites(c, u, sid, [pst[c][u][sid] EXCEPT !.chunks = @ - 1],
                  AudioFrame(0, pst[c][u][sid].made - pst[c][u][sid].chunks + 1))

PeerFinished(c, u, sid) ==
    /\ pconn[c][u] = "open"
    /\ pst[c][u][sid].st = "eos" /\ pst[c][u][sid].chunks = 0
    /\ PeerWrites(c, u, sid, NoPeerSession, FinishedFrame(0))

PeerTimeout(c, u, sid) ==
    /\ pconn[c][u] = "open"
    /\ pst[c][u][sid].st # "none"
    /\ PeerWrites(c, u, sid, NoPeerSession,
                  ErrorFrame(0, IF pst[c][u][sid].st = "live"
                                THEN "Inactivity timeout" ELSE "Output timeout"))

\* The peer writes a frame for a session id that has no handle in the
\* pool (no session of that id was ever forwarded): _run_connection logs
\* it and reads on.
PeerStray(c, u, sid) ==
    /\ pconn[c][u] = "open"
    /\ phl[c][sid] = 0
    /\ dropped < MaxFrames
    /\ dropped' = dropped + 1
    /\ hd' = RouteUp(phl, c, sid, <<ErrorFrame(0, "Session not found")>>,
                     0, FreeHandler)
    /\ UNCHANGED <<tvars, password, req, servers, server_updated_time,
                   running, cleanup_task, maxSessions,
                   budget, hSessions, hClosed, internal, wsClosed, rl,
                   sessions, out, nextH, nIn, pvars>>

\* The transport to a peer closes: _run_connection's loop ends and its
\* finally clause removes the connection from the pool.
UpstreamCloses(c, u) ==
    /\ pconn[c][u] = "open"
    /\ pconn' = [pconn EXCEPT ![c][u] = "none"]
    /\ swl' = [swl EXCEPT ![c] =
                 [s \in Sids |-> IF swl[c][s] = u THEN "dead" ELSE swl[c][s]]]
    /\ pst' = [pst EXCEPT ![c][u] = [s \in Sids |-> NoPeerSession]]
    /\ UNCHANGED <<cvars, out, hd, plock, phl>>

\* ------------------------------------------------------- the controller
\* ServiceHealthRepository.__init__, timeout_seconds, in seconds.
T_stale == 30

\* _cleanup_expired_servers_loop: the age, in seconds, above which an entry
\* is deleted.
T_expire == 120

\* The urls of the workers that report to the controller.
Workers == {"w1", "w2"}

\* The largest max_sessions a report carries; its sessions may be as large.
MaxReport == MaxCapacity + 1

\* The controller's clock is read every Elapse seconds.
Elapse == T_stale

\* The age reported for an entry without a time: last_updated defaults to
\* 0.0, the epoch.
Epoch == T_expire + Elapse

\* An entry of _servers: what the report carried.
ServerHealth(url, s, m) == [url |-> url, sessions |-> s, max_sessions |-> m]

\* GetServerHealthResponse(server_health=s, last_updated=
\* _server_updated_time.get(s.url, 0.0)), the time kept as the age.
GetServerHealthResponse(e) ==
    [url |-> e.url, sessions |-> e.sessions, max_sessions |-> e.max_sessions,
     age |-> IF e.url \in DOMAIN server_updated_time
             THEN server_updated_time[e.url] ELSE Epoch]

\* The sort key of get_available_servers and get_all_servers.
Slack(e) == e.max_sessions - e.sessions

\* Controller.start: the site is started; the repository is left as it was
\* constructed (its start is not called).
ControllerStart ==
    /\ ~running
    /\ running' = TRUE
    /\ UNCHANGED <<tvars, password, req, servers, server_updated_time, cleanup_task,
                   dropped, maxSessions, budget, hSessions, hClosed, internal,
                   wsClosed, rl, sessions, out, hd, nextH, nIn, pvars>>

\* A repository that adds every report at the end of its list.
update_server_health_append(url, s, m) ==
    /\ running
    /\ servers' = Append(servers, ServerHealth(url, s, m))
    /\ server_updated_time' =
          [u \in DOMAIN server_updated_time \cup {url} |->
              IF u = url THEN 0 ELSE server_updated_time[u]]
    /\ UNCHANGED <<tvars, password, req, running, cleanup_task, dropped, maxSessions,
                   budget, hSessions, hClosed, internal, wsClosed, rl, sessions,
                   out, hd, nextH, nIn, pvars>>

\* Controller._post_health_report / update_server_health: the dict entry of
\* the url is replaced where it stands, or added at the end, and its time
\* set to now.
update_server_health(url, s, m) ==
    /\ running
    /\ servers' =
          IF \E i \in 1..Len(servers) : servers[i].url = url
          THEN [i \in 1..Len(servers) |->
                   IF servers[i].url = url THEN ServerHealth(url, s, m)
                   ELSE servers[i]]
          ELSE Append(servers, ServerHealth(url, s, m))
    /\ server_updated_time' =
          [u \in DOMAIN server_updated_time \cup {url} |->
              IF u = url THEN 0 ELSE server_updated_time[u]]
    /\ UNCHANGED <<tvars, password, req, running, cleanup_task, dropped, maxSessions,
                   budget, hSessions, hClosed, internal, wsClosed, rl, sessions,
                   out, hd, nextH, nIn, pvars>>

\* _cleanup_expired_servers_loop, one round on the entries q and the times
\* t: the urls of q whose time is older than T_expire are deleted from
\* both.
cleanup_expired_servers(q, t) ==
    LET servers_to_remove ==
            {q[i].url : i \in {j \in 1..Len(q) : t[q[j].url] > T_expire}}
    IN [servers |-> SelectSeq(q, LAMBDA e : e.url \notin servers_to_remove),
        times |-> [u \in DOMAIN t \ servers_to_remove |-> t[u]]]

\* Elapse seconds pass.  The cleanup task, if it exists, has run since (it
\* sleeps 5 seconds between rounds).
TimePasses ==
    /\ running /\ servers # <<>>
    /\ \A u \in DOMAIN server_updated_time :
          server_updated_time[u] <= T_expire
    /\ LET aged == [u \in DOMAIN server_updated_time |->
                       server_updated_time[u] + Elapse]
       IN IF cleanup_task
          THEN /\ servers' = cleanup_expired_servers(servers, aged).servers
               /\ server_updated_time' =
                     cleanup_expired_servers(servers, aged).times
          ELSE /\ servers' = servers
               /\ server_updated_time' = aged
    /\ UNCHANGED <<tvars, password, req, running, cleanup_task, dropped, maxSessions,
                   budget, hSessions, hClosed, internal, wsClosed, rl, sessions,
                   out, hd, nextH, nIn, pvars>>

\* sorted(servers, key=max_sessions - sessions): ascending by the key, equal
\* keys in the order of the dict (sorted is stable).
Insert(e, q) ==
    LET k == Cardinality({i \in 1..Len(q) : Slack(q[i]) <= Slack(e)})
    IN SubSeq(q, 1, k) \o <<e>> \o SubSeq(q, k + 1, Len(q))

RECURSIVE sorted_by_capacity(_)
sorted_by_capacity(q) ==
    IF q = <<>> THEN <<>>
    ELSE Insert(q[Len(q)], sorted_by_capacity(SubSeq(q, 1, Len(q) - 1)))

\* The responses for a list of entries.
Responses(q) == [i \in 1..Len(q) |-> GetServerHealthResponse(q[i])]

\* A list that also has the workers that are exactly full.
get_available_servers_full ==
    Responses(SelectSeq(sorted_by_capacity(servers),
                        LAMBDA e : e.sessions <= e.max_sessions))

\* ServiceHealthRepository.get_available_servers
get_available_servers ==
    Responses(SelectSeq(sorted_by_capacity(servers),
                        LAMBDA e : e.sessions < e.max_sessions))

\* ServiceHealthRepository.get_all_servers
get_all_servers == Responses(sorted_by_capacity(servers))

\* ------------------------------------------------------ specifications
\* What the handlers do, whatever the clients send.
Tasks ==
    \/ \E h \in Handlers : LocalRunStart(h)
    \/ \E h \in Handlers : SendLoop(h)
    \/ \E h \in Handlers : LocalAudio(h)
    \/ \E h \in Handlers : LocalFinish(h)
    \/ \E h \in Handlers : InputTimeout(h)
    \/ \E h \in Handlers : OutputTimeout(h)

\* A standalone worker (no peers: the candidate list is always empty) and
\* the client of one public connection, which sends any frames for two
\* session ids.
Next ==
    \/ \E s \in Sids : StartLocal("a", s)
    \/ \E s \in Sids : StartForward("a", s, <<>>)
    \/ \E s \in Sids : ClientPush("a", s)
    \/ \E s \in Sids : ClientEos("a", s)
    \/ TransportClose("a")
    \/ ReceiveLoopEnd("a")
    \/ HealthClose
    \/ Tasks

\* Connection "a" is public, connection "b" comes from a peer worker.
Init ==
    /\ InitCommon
    /\ budget = MaxFrames
    /\ internal = [c \in Conns |-> c = "b"]

Spec == Init /\ [][Next]_vars

\* The same worker, with or without a password, from before its endpoints
\* got their first requests: one on the public endpoint ("a"), one on the
\* internal endpoint ("b"), each with any Authorization header.
InitUpgrade ==
    /\ password \in {NoPassword, "pw"}
    /\ req = [c \in Conns |-> ""]
    /\ rl = [c \in Conns |-> "none"]
    /\ InitController
    /\ InitWorker
    /\ NoSentences
    /\ budget = MaxFrames
    /\ internal = [c \in Conns |-> c = "b"]

NextUpgrade ==
    \/ \E c \in Conns, header \in Headers : Upgrade(c, header)
    \/ Next

SpecUpgrade == InitUpgrade /\ [][NextUpgrade]_vars

\* A controller and the workers that report to it, with any counters.
InitRegistry == Init /\ maxSessions = MaxCapacity

NextRegistry ==
    \/ ControllerStart
    \/ \E url \in Workers, s \in 0..MaxReport, m \in 1..MaxReport :
          update_server_health(url, s, m)
    \/ TimePasses

SpecRegistry == InitRegistry /\ [][NextRegistry]_vars

\* Two connections of a standalone worker, a public and an internal one,
\* each with one session id.
NextConns ==
    \/ \E c \in Conns : StartLocal(c, "s1")
    \/ StartForward("a", "s1", <<>>)
    \/ StartInternalFull("b", "s1")
    \/ \E c \in Conns : ClientPush(c, "s1")
    \/ \E c \in Conns : ClientEos(c, "s1")
    \/ \E c \in Conns : TransportClose(c)
    \/ \E c \in Conns : ReceiveLoopEnd(c)
    \/ Tasks

SpecConns == Init /\ [][NextConns]_vars

\* What the Remote handlers, the pool and the peers do while the transports
\* to the peers hold.
Upstream ==
    \/ \E h \in Handlers : RemoteRun(h)
    \/ \E h \in Handlers : RemoteLockFree(h)
    \/ \E h \in Handlers : RemoteDialed(h)
    \/ \E h \in Handlers : RemoteForward(h)
    \/ \E h \in Handlers : RemoteReceive(h)
    \/ \E h \in Handlers : RemoteJoin(h)
    \/ \E u \in Peers : PeerAudio("a", u, "s1")
    \/ \E u \in Peers : PeerFinished("a", u, "s1")
    \/ \E u \in Peers : PeerTimeout("a", u, "s1")

\* A worker with peers and one connection, which came in on the public or
\* on the internal endpoint; its client uses one session id, any number of
\* times.
InitForward ==
    /\ InitCommon
    /\ budget = MaxFrames
    /\ internal \in {[c \in Conns |-> c = "b" \/ i] : i \in BOOLEAN}

\* The frames of the connection and the tasks they start.
Forwarding ==
    \/ StartLocal("a", "s1")
    \/ StartInternalFull("a", "s1")
    \/ \E cands \in CandidateLists : StartForward("a", "s1", cands)
    \/ ClientPush("a", "s1")
    \/ ClientEos("a", "s1")
    \/ TransportClose("a")
    \/ ReceiveLoopEnd("a")
    \/ Tasks
    \/ Upstream

NextForward ==
    \/ Forwarding
    \/ \E u \in Peers : UpstreamCloses("a", u)
    \/ StartQueryFails("a", "s1")

SpecForward == InitForward /\ [][NextForward]_vars

\* The same worker while no transport to a peer closes.
SpecSteady == InitForward /\ [][Forwarding]_vars

\* The client of a public connection opens one session, which the worker
\* serves or forwards, and then sends any texts and Eos frames for it, a
\* frame more than the clients above.
LongRun == MaxFrames + 1

InitSession ==
    /\ InitCommon
    /\ budget = LongRun
    /\ internal = [c \in Conns |-> c = "b"]

OpenSession(c, sid) ==
    /\ nIn = 0
    /\ \/ StartLocal(c, sid)
       \/ \E cands \in CandidateLists : StartForward(c, sid, cands)

NextSession ==
    \/ OpenSession("a", "s1")
    \/ \E t \in Texts : ClientFrame("a", "s1", t)
    \/ ClientEos("a", "s1")
    \/ TransportClose("a")
    \/ ReceiveLoopEnd("a")
    \/ Tasks
    \/ \E h \in Handlers : RemoteRun(h)
    \/ \E h \in Handlers : RemoteDialed(h)
    \/ \E h \in Handlers : RemoteForward(h)
    \/ \E h \in Handlers : RemoteReceive(h)
    \/ \E h \in Handlers : RemoteJoin(h)
    \/ \E u \in Peers : PeerAudio("a", u, "s1")
    \/ \E u \in Peers : PeerFinished("a", u, "s1")
    \/ \E u \in Peers : PeerTimeout("a", u, "s1")
    \/ \E u \in Peers : UpstreamCloses("a", u)

SpecSession == InitSession /\ [][NextSession]_vars

\* The same client when it may also send bytes that are no frame.
NextMalformed ==
    \/ NextSession
    \/ MalformedFrame("a")

SpecMalformed == InitSession /\ [][NextMalformed]_vars

\* A worker with peers and two public connections, each with its own
\* ProxyConnections (WebsocketConnection.__init__), each client using one
\* session id.
InitPool ==
    /\ InitCommon
    /\ budget = MaxFrames
    /\ internal = [c \in Conns |-> FALSE]

NextPool ==
    \/ \E c \in Conns : StartLocal(c, "s1")
    \/ \E c \in Conns, cands \in CandidateLists : StartForward(c, "s1", cands)
    \/ \E c \in Conns : ClientPush(c, "s1")
    \/ \E c \in Conns : ClientEos(c, "s1")
    \/ \E h \in Handlers : RemoteRun(h)
    \/ \E h \in Handlers : RemoteLockFree(h)
    \/ \E h \in Handlers : RemoteDialed(h)
    \/ \E h \in Handlers : RemoteForward(h)
    \/ \E h \in Handlers : RemoteReceive(h)
    \/ \E c \in Conns, u \in Peers : PeerAudio(c, u, "s1")
    \/ \E c \in Conns, u \in Peers : PeerFinished(c, u, "s1")
    \/ \E c \in Conns, u \in Peers : UpstreamCloses(c, u)

SpecPool == InitPool /\ [][NextPool]_vars

\* The runs in which no timer fires and no client or peer closes a
\* transport, and every task that can take a step eventually takes one.
LocalTasks ==
    \/ \E h \in Handlers : LocalRunStart(h)
    \/ \E h \in Handlers : SendLoop(h)
    \/ \E h \in Handlers : LocalAudio(h)
    \/ \E h \in Handlers : LocalFinish(h)

\* A standalone worker whose client opens one session and sends any texts
\* and Eos frames for it.
OpenStandalone(c, sid) ==
    /\ nIn = 0
    /\ \/ StartLocal(c, sid)
       \/ StartForward(c, sid, <<>>)

NextServe ==
    \/ OpenStandalone("a", "s1")
    \/ \E t \in Texts : ClientFrame("a", "s1", t)
    \/ ClientEos("a", "s1")
    \/ LocalTasks

SpecServe == InitSession /\ [][NextServe]_vars /\ WF_vars(LocalTasks)

\* A fleet of two workers: the candidate list is empty or names the one
\* peer.  The client of a public connection opens each session id once and
\* ends sessions with Eos; the capacity reports of the worker succeed.
HappyRun == LongRun + 1

TwoWorkerLists == {<<>>, <<"p1">>}

InitHappy ==
    /\ InitCommon
    /\ budget = HappyRun
    /\ internal = [c \in Conns |-> c = "b"]

OpenOnce(c, sid) ==
    /\ ~Seen(c, sid)
    /\ \/ StartLocal(c, sid) /\ ~wsClosed'[c]
       \/ \E cands \in TwoWorkerLists : StartForward(c, sid, cands)

HappyTasks ==
    \/ LocalTasks
    \/ \E h \in Handlers : RemoteRun(h)
    \/ \E h \in Handlers : RemoteLockFree(h)
    \/ \E h \in Handlers : RemoteDialed(h)
    \/ \E h \in Handlers : RemoteForward(h)
    \/ \E h \in Handlers : RemoteReceive(h)
    \/ \E u \in Peers, s \in Sids : PeerAudio("a", u, s)
    \/ \E u \in Peers, s \in Sids : PeerFinished("a", u, s)

NextHappy ==
    \/ \E s \in Sids : OpenOnce("a", s)
    \/ \E s \in Sids : ClientEos("a", s)
    \/ HappyTasks

SpecHappy == InitHappy /\ [][NextHappy]_vars /\ WF_vars(HappyTasks)

\* The same fleet when the peer also writes frames for session ids that
\* were never forwarded to it.
NextRouting ==
    \/ NextHappy
    \/ \E u \in Peers, s \in Sids : PeerStray("a", u, s)

SpecRouting == InitHappy /\ [][NextRouting]_vars

\* --------------------------------------------------------------- claims
\* A Finished or an Error frame.
Terminal(f) == f.t \in {"finished", "error"}

\* The positions of the terminal frames handler h wrote to its client.
TerminalFrames(h) ==
    LET o == out[hd[h].conn][hd[h].sid]
    IN {i \in 1..Len(o) : o[i].h = h /\ Terminal(o[i])}

NoCapacityFrame == ErrorFrame(0, "No capacity")

\* The Local handlers whose run task has not ended.
LiveLocal == {h \in Handlers : IsLocal(h) /\ hd[h].pc # "done"}

\* A handler that still serves its session.
HandlerLive(h) == hd[h].kind # "free" /\ hd[h].pc \notin {"done", "failed"}

\* The step reads a StartSession frame of session id sid on connection c.
StartRead(c, sid) ==
    \/ StartLocal(c, sid)
    \/ StartInternalFull(c, sid)
    \/ \E cands \in CandidateLists : StartForward(c, sid, cands)
    \/ StartQueryFails(c, sid)

\* The step admits a session to a new Local handler.
AdmitsLocal == nextH' = nextH + 1 /\ hd'[nextH].kind = "local"

\* C1: no handler writes two terminal frames, and every Local handler whose
\* run task ended while the client transport stayed open wrote exactly one
\* (a Finished or an Error).
C1_ExactlyOneTerminal ==
    \A h \in Handlers :
        /\ Cardinality(TerminalFrames(h)) <= 1
        /\ (IsLocal(h) /\ hd[h].pc = "done" /\ ~wsClosed[hd[h].conn])
              => Cardinality(TerminalFrames(h)) = 1

\* C2: in what the client reads for a session id, no frame written by a
\* handler follows a terminal frame written by the same handler.
C2_TerminalIsLast ==
    \A c \in Conns, s \in Sids :
        \A i, j \in 1..Len(out[c][s]) :
            (i < j /\ Terminal(out[c][s][i]) /\ out[c][s][i].h # 0)
                => out[c][s][j].h # out[c][s][i].h

\* C3: across the connections of the worker, the Local handlers that were
\* admitted and have not ended never outnumber max_sessions.
C3_CapacityBound == Cardinality(LiveLocal) <= maxSessions

\* The worker is full with a session of connection "b" being served, and a
\* StartSession on connection "a" was refused.
C3_Witness ==
    /\ maxSessions = MaxCapacity
    /\ Cardinality(LiveLocal) = maxSessions
    /\ \E h \in LiveLocal : hd[h].conn = "b" /\ hd[h].pc = "stream"
    /\ out["a"]["s1"] = <<NoCapacityFrame>>

\* C4: whenever no Local handler is live (each one's run task has ended, or
\* it was closed without ever having run) the session counter is 0.
C4_CounterZeroWhenIdle ==
    (\A h \in Handlers :
        IsLocal(h) => \/ hd[h].pc = "done"
                      \/ hd[h].pc = "norun" /\ hd[h].closed)
        => hSessions = 0

\* C5: a StartSession does not replace a live handler in the session table:
\* while the handler registered for an id is live, the id's entry stays
\* that handler until it is removed.
C5_DuplicateStartRejected ==
    [][\A c \in Conns, s \in Sids :
          (sessions[c][s] # 0 /\ HandlerLive(sessions[c][s]))
              => sessions'[c][s] \in {sessions[c][s], 0}]_vars

\* C6: a PushText or Eos frame for an id without a handler appends exactly
\* one Error "Session not found" to that id's frames, creates no handler,
\* touches no other session, and leaves the read loop running on an open
\* transport.
C6_SessionNotFound ==
    [][\A c \in Conns, s \in Sids, m \in {PushMsg, EosMsg} :
          (sessions[c][s] = 0 /\ ClientFrame(c, s, m))
              => /\ out' = [out EXCEPT ![c][s] =
                               Append(@, ErrorFrame(0, "Session not found"))]
                 /\ hd' = hd /\ sessions' = sessions /\ nextH' = nextH
                 /\ hSessions' = hSessions
                 /\ rl'[c] = "run" /\ ~wsClosed'[c]]_vars

\* "Session not found" was the answer for an id, and the read loop went on
\* to admit a session under that id.
C6_Witness ==
    /\ Len(out["a"]["s1"]) >= 1
    /\ out["a"]["s1"][1] = ErrorFrame(0, "Session not found")
    /\ sessions["a"]["s1"] # 0
    /\ ~wsClosed["a"]

\* C7 (amended): a StartSession is served by a new Local handler exactly
\* when the health agent is not closed and the session count is below
\* max_sessions; otherwise it is forwarded or refused.
C7_LocalCheckAmended ==
    [][\A c \in Conns, s \in Sids :
          StartRead(c, s)
              => ((~hClosed /\ hSessions < maxSessions) <=> AdmitsLocal)]_vars

\* C7 as stated: a StartSession is served by a new Local handler exactly
\* when the session count is below max_sessions.
C7_LocalCheckAsStated ==
    [][\A c \in Conns, s \in Sids :
          StartRead(c, s)
              => ((hSessions < maxSessions) <=> AdmitsLocal)]_vars

\* A session was admitted to a Local handler; later, with the health agent
\* closed and the count below max_sessions, a StartSession was refused.
C7_Witness ==
    /\ hClosed /\ hSessions < maxSessions
    /\ \E h \in Handlers : IsLocal(h)
    /\ \E s \in Sids :
          /\ out["a"][s] # <<>>
          /\ out["a"][s][Len(out["a"][s])] = NoCapacityFrame

\* C8: an internal connection never has a Remote handler nor any pool
\* activity (no connection, no dial under way, no lease), and a
\* StartSession read on it while the local check fails is answered with
\* Error "No capacity" and changes nothing else.
C8_InternalNeverForwards ==
    /\ [](\A c \in Conns :
             internal[c] =>
                /\ \A h \in Handlers : ~(IsRemote(h) /\ hd[h].conn = c)
                /\ \A u \in Peers : pconn[c][u] = "none" /\ plock[c][u] = 0
                /\ \A s \in Sids : swl[c][s] = "none" /\ phl[c][s] = 0)
    /\ [][\A c \in Conns, s \in Sids :
             (internal[c] /\ ~can_accept_session /\ StartRead(c, s))
                 => /\ out' = [out EXCEPT ![c][s] = Append(@, NoCapacityFrame)]
                    /\ hd' = hd /\ sessions' = sessions
                    /\ pvars' = pvars]_vars

\* The worker is full with a live Local session, and a StartSession read on
\* its internal connection was answered with "No capacity".
C8_Witness ==
    /\ internal["a"]
    /\ \E h \in LiveLocal : hd[h].conn = "a"
    /\ out["a"]["s1"] # <<>>
    /\ out["a"]["s1"][Len(out["a"]["s1"])] = NoCapacityFrame

\* C9: when the selection of a peer failed for a session (no candidate
\* could be leased, or the initial StartSession could not be sent) the
\* client has an Error "No capacity" for the session id.
C9_ExhaustionAnswered ==
    \A h \in Handlers :
        (IsRemote(h) /\ hd[h].pc = "failed" /\ hd[h].rcv = "none")
            => \E i \in 1..Len(out[hd[h].conn][hd[h].sid]) :
                  /\ out[hd[h].conn][hd[h].sid][i].t = "error"
                  /\ out[hd[h].conn][hd[h].sid][i].m = "No capacity"

\* C10: a Remote handler that holds a lease on a live connection to a
\* candidate neither dials nor waits for a later candidate.
C10_FirstLeaseWins ==
    \A h \in Handlers :
        (IsRemote(h) /\ hd[h].dest # "none"
                     /\ pconn[hd[h].conn][hd[h].dest] = "open")
            => hd[h].pc \notin {"dialing", "cand"}

\* The step appends frame f to what the client reads for handler h's id.
Wrote(h, f) ==
    out' = [out EXCEPT ![hd[h].conn][hd[h].sid] = Append(@, f)]

\* The timer Errors handler h wrote.
TimerErrors(h) ==
    LET o == out[hd[h].conn][hd[h].sid]
    IN {i \in 1..Len(o) :
           /\ o[i].h = h /\ o[i].t = "error"
           /\ o[i].m \in {"Inactivity timeout", "Output timeout"}}

\* C13: the input timer of a Local handler can fire exactly while the
\* handler is not closed and Eos was not received; the step that writes
\* Error "Inactivity timeout" closes the handler, and leaves the transport
\* open, the read loop running and the other sessions as they were.
C13_InputTimer ==
    /\ [](\A h \in Handlers :
             IsLocal(h) => (ENABLED InputTimeout(h)
                               <=> (~hd[h].closed /\ ~hd[h].eos)))
    /\ [][\A h \in Handlers :
             (IsLocal(h) /\ Wrote(h, ErrorFrame(h, "Inactivity timeout")))
                 => /\ ~hd[h].eos /\ ~hd[h].closed /\ hd'[h].closed
                    /\ \A g \in Handlers \ {h} : hd'[g] = hd[g]
                    /\ ~wsClosed'[hd[h].conn] /\ rl'[hd[h].conn] = "run"
                    /\ sessions' = sessions]_vars

\* The input timer closed a session of a worker with one slot; the handler's
\* run task ended, and the connection went on to admit a new session, which
\* is being served.
C13_Witness ==
    /\ maxSessions = 1 /\ ~wsClosed["a"]
    /\ \E h, g \in Handlers :
          /\ h < g /\ IsLocal(h) /\ IsLocal(g)
          /\ hd[h].pc = "done" /\ hd[g].pc = "stream"
          /\ \E i \in TimerErrors(h) :
                out[hd[h].conn][hd[h].sid][i].m = "Inactivity timeout"

\* C14: the output timer of a Local handler can fire exactly while the
\* handler is not closed, whether Eos was received or not; the step that
\* writes Error "Output timeout" closes the handler and leaves the
\* transport open and the read loop running; no handler writes two timer
\* Errors.
C14_OutputTimer ==
    /\ [](\A h \in Handlers :
             /\ IsLocal(h) => (ENABLED OutputTimeout(h) <=> ~hd[h].closed)
             /\ Cardinality(TimerErrors(h)) <= 1)
    /\ [][\A h \in Handlers :
             (IsLocal(h) /\ Wrote(h, ErrorFrame(h, "Output timeout")))
                 => /\ ~hd[h].closed /\ hd'[h].closed
                    /\ \A g \in Handlers \ {h} : hd'[g] = hd[g]
                    /\ ~wsClosed'[hd[h].conn] /\ rl'[hd[h].conn] = "run"
                    /\ sessions' = sessions]_vars

\* The output timer closed a session whose Eos had been received (the input
\* timer cannot fire there), and the connection is open.
C14_Witness ==
    \E h \in Handlers :
        /\ IsLocal(h) /\ hd[h].eos /\ ~wsClosed[hd[h].conn]
        /\ \E i \in TimerErrors(h) :
              out[hd[h].conn][hd[h].sid][i].m = "Output timeout"

\* The frames of q before its first Eos (all of q when it has none).
BeforeEos(q) ==
    LET E == {i \in 1..Len(q) : q[i] = EosMsg}
    IN IF E = {} THEN q
       ELSE SubSeq(q, 1, (CHOOSE i \in E : \A k \in E : i <= k) - 1)

IsPrefix(p, q) == Len(p) <= Len(q) /\ p = SubSeq(q, 1, Len(p))

\* C15: a text that reaches a Local handler after its Eos is never pushed
\* to the model session (the model is pushed no more texts than arrived
\* before the Eos, and none once eos was called on it), and the step that
\* reads it writes no frame and changes no handler's model session.
C15_TextAfterEosDiscarded ==
    /\ [](\A h \in Handlers :
             (IsLocal(h) /\ hd[h].eos)
                 => Len(hd[h].delivered) <= Len(BeforeEos(hd[h].arrived)))
    /\ [][\A h \in Handlers :
             (IsLocal(h) /\ hd[h].eos)
                 => /\ hd[h].eosCalled => hd'[h].delivered = hd[h].delivered
                    /\ \A t \in Texts :
                          (sessions[hd[h].conn][hd[h].sid] = h
                              /\ ClientFrame(hd[h].conn, hd[h].sid, t))
                          => /\ out' = out
                             /\ hd'[h].delivered = hd[h].delivered
                             /\ hd'[h].chunks = hd[h].chunks
                             /\ hd'[h].closed = hd[h].closed]_vars

\* A text reached a Local handler after its Eos; the session went on to its
\* Finished, and the text is still on the input queue.
C15_Witness ==
    \E h \in Handlers :
        /\ IsLocal(h) /\ hd[h].eos /\ hd[h].pc = "done"
        /\ \E i, j \in 1..Len(hd[h].arrived) :
              i < j /\ hd[h].arrived[i] = EosMsg /\ hd[h].arrived[j] \in Texts
        /\ hd[h].inq # <<>>
        /\ \E i \in TerminalFrames(h) :
              out[hd[h].conn][hd[h].sid][i].t = "finished"

\* C17: the texts a Local handler pushed to its model session are, in
\* order, the first of those that arrived before Eos, and all of them once
\* the Eos was taken from the queue; the frames a Remote handler wrote to
\* its peer are, in order, the first of those that arrived, and all of them
\* whenever its input queue is empty.
C17_TextsInOrder ==
    \A h \in Handlers :
        /\ IsLocal(h) =>
              /\ IsPrefix(hd[h].delivered, BeforeEos(hd[h].arrived))
              /\ (hd[h].eos /\ hd[h].eosCalled)
                    => hd[h].delivered = BeforeEos(hd[h].arrived)
        /\ IsRemote(h) =>
              /\ IsPrefix(hd[h].delivered, hd[h].arrived)
              /\ (hd[h].pc = "relay" /\ hd[h].inq = <<>>)
                    => hd[h].delivered = hd[h].arrived

\* A Remote handler wrote two different texts to its peer.
C17_Witness ==
    \E h \in Handlers :
        /\ IsRemote(h) /\ Len(hd[h].delivered) = 2
        /\ hd[h].delivered[1] \in Texts /\ hd[h].delivered[2] \in Texts
        /\ hd[h].delivered[1] # hd[h].delivered[2]

\* The chunk positions of the AudioData frames handler h wrote, in the
\* order the client reads them.
RECURSIVE AudioOf(_, _)
AudioOf(h, o) ==
    IF o = <<>> THEN <<>>
    ELSE IF Head(o).h = h /\ Head(o).t = "audio"
         THEN <<Head(o).n>> \o AudioOf(h, Tail(o))
         ELSE AudioOf(h, Tail(o))

AudioSeq(h) == AudioOf(h, out[hd[h].conn][hd[h].sid])

\* C18: the AudioData frames the client reads from a handler are the first
\* chunks the serving model session produced, in the order it produced
\* them; a Local handler that wrote Finished wrote every chunk.
C18_AudioInOrder ==
    \A h \in Handlers :
        /\ \A i \in 1..Len(AudioSeq(h)) : AudioSeq(h)[i] = i
        /\ IsLocal(h) =>
              /\ Len(AudioSeq(h)) <= Produced(hd[h])
              /\ (\E i \in TerminalFrames(h) :
                      out[hd[h].conn][hd[h].sid][i].t = "finished")
                    => Len(AudioSeq(h)) = Produced(hd[h])

\* A Remote handler relayed two chunks of its peer and the Finished.
C18_Witness ==
    \E h \in Handlers :
        /\ IsRemote(h) /\ Len(AudioSeq(h)) = 2
        /\ \E i \in TerminalFrames(h) :
              out[hd[h].conn][hd[h].sid][i].t = "finished"

\* C19: the worker holds at most one live connection to a peer url, which
\* the Remote sessions of all its client connections share.
C19_OneConnectionPerPeer ==
    \A u \in Peers : Cardinality({c \in Conns : pconn[c][u] = "open"}) <= 1

\* The Remote handlers whose lease is on the connection of c to u.
Leases(c, u) ==
    {h \in Handlers :
        /\ IsRemote(h) /\ hd[h].conn = c /\ hd[h].dest = u
        /\ swl[c][hd[h].sid] = u /\ phl[c][hd[h].sid] = h}

\* C20: the step in which the transport to a peer closes puts the
\* end-of-stream marker on the queue of every lease on it, and a Remote
\* handler whose connection closed and whose run task ended has written
\* Error "Upstream failure" to its client.
C20_UpstreamFailureReported ==
    /\ [][\A c \in Conns, u \in Peers :
             (pconn[c][u] = "open" /\ pconn'[c][u] = "none")
                 => \A h \in Leases(c, u) :
                       \E i \in 1..Len(hd'[h].mq) : hd'[h].mq[i] = NoneFrame]_vars
    /\ [](\A h \in Handlers :
             (IsRemote(h) /\ swl[hd[h].conn][hd[h].sid] = "dead"
                         /\ hd[h].pc \in {"done", "failed"})
                 => \E i \in 1..Len(out[hd[h].conn][hd[h].sid]) :
                       /\ out[hd[h].conn][hd[h].sid][i].t = "error"
                       /\ out[hd[h].conn][hd[h].sid][i].m = "Upstream failure")

\* The positions of the Finished frames handler h wrote.
FinishedBy(h) ==
    {i \in TerminalFrames(h) : out[hd[h].conn][hd[h].sid][i].t = "finished"}

\* Handler h wrote AudioData, then one Finished, and no AudioData after it.
AudioThenFinished(h) ==
    LET o == out[hd[h].conn][hd[h].sid]
    IN /\ Cardinality(FinishedBy(h)) = 1
       /\ \E i \in 1..Len(o) : o[i].h = h /\ o[i].t = "audio"
       /\ \A i \in 1..Len(o), j \in FinishedBy(h) :
             (o[i].h = h /\ o[i].t = "audio") => i < j

\* The step is one of Remote handler h's tasks.
RemoteStep(h) ==
    \/ RemoteRun(h)
    \/ RemoteLockFree(h)
    \/ RemoteDialed(h)
    \/ RemoteForward(h)
    \/ RemoteReceive(h)
    \/ RemoteJoin(h)

\* The peer serving Remote handler h has read the session's Eos.
PeerHasEos(h) ==
    /\ IsRemote(h) /\ hd[h].pc = "relay" /\ hd[h].dest # "none"
    /\ pst[hd[h].conn][hd[h].dest][hd[h].sid].st = "eos"

\* C11: in a run where nothing fails, a forwarded session whose Eos reached
\* the peer eventually has AudioData followed by one Finished at the
\* client, and no Remote handler ever relays two Finished; the Remote
\* handlers' steps leave the Local handlers, their frames and the session
\* counter as they were, and a Local session that has its Eos is served to
\* its Finished whether or not sessions are being forwarded.
C11_ForwardedHappyPath ==
    /\ \A h \in Handlers : PeerHasEos(h) ~> AudioThenFinished(h)
    /\ \A g \in Handlers :
          (IsLocal(g) /\ hd[g].pc = "stream" /\ hd[g].eos
                      /\ \E h \in Handlers : IsRemote(h))
              ~> AudioThenFinished(g)
    /\ [](\A h \in Handlers : IsRemote(h) => Cardinality(FinishedBy(h)) <= 1)
    /\ [][\A h \in Handlers :
             RemoteStep(h)
                 => /\ hSessions' = hSessions /\ sessions' = sessions
                    /\ \A g \in Handlers :
                          IsLocal(g)
                              => /\ hd'[g] = hd[g]
                                 /\ hd[g].sid # hd[h].sid
                                       => out'[hd[g].conn][hd[g].sid]
                                             = out[hd[g].conn][hd[g].sid]]_vars

\* A worker with one slot served a first session to its Finished and relayed
\* a second one, forwarded while the first was live, to its Finished.
C11_Witness ==
    /\ maxSessions = 1
    /\ \E g, h \in Handlers :
          /\ g < h /\ IsLocal(g) /\ IsRemote(h)
          /\ hd[g].conn = hd[h].conn
          /\ AudioThenFinished(g) /\ AudioThenFinished(h)

\* C12: a StartSession read on a public connection of a full worker either
\* registers a Remote handler or is answered with Error "No capacity"; in
\* both cases the transport stays as it was, the read loop goes on, and the
\* handlers, the frames and the counter of the other sessions are
\* untouched.  In a run where nothing fails, a Local session of a
\* connection on which a StartSession was refused is still served: once it
\* has its Eos it gets AudioData followed by one Finished.
C12_RefusalLeavesOthers ==
    /\ [][\A c \in Conns, s \in Sids :
             (StartRead(c, s) /\ ~internal[c] /\ ~can_accept_session)
                 => /\ \/ /\ nextH' = nextH + 1 /\ hd'[nextH].kind = "remote"
                          /\ sessions' = [sessions EXCEPT ![c][s] = nextH]
                          /\ out' = out
                       \/ /\ nextH' = nextH /\ sessions' = sessions
                          /\ out' = [out EXCEPT ![c][s] =
                                        Append(@, NoCapacityFrame)]
                    /\ \A g \in Handlers : hd[g].kind # "free" => hd'[g] = hd[g]
                    /\ hSessions' = hSessions /\ pvars' = pvars
                    /\ wsClosed' = wsClosed /\ rl' = rl]_vars
    /\ \A g \in Handlers :
          (/\ IsLocal(g) /\ hd[g].pc = "stream" /\ hd[g].eos
           /\ \E s \in Sids : out[hd[g].conn][s] = <<NoCapacityFrame>>)
              ~> AudioThenFinished(g)

\* A worker with one slot serves a first session, forwarded a second, and
\* refused a third; the connection is open and the first session got its
\* AudioData and its Finished.
C12_Witness ==
    /\ maxSessions = 1 /\ ~wsClosed["a"] /\ rl["a"] = "run"
    /\ out["a"]["s3"] = <<NoCapacityFrame>>
    /\ \E g, h \in Handlers :
          /\ IsLocal(g) /\ hd[g].conn = "a" /\ hd[g].sid = "s1"
          /\ IsRemote(h) /\ hd[h].conn = "a" /\ hd[h].sid = "s2"
          /\ hd[h].pc = "relay"
          /\ AudioThenFinished(g)

\* C16: in a run where nothing fails, a Local session that has its Eos
\* eventually ends with AudioData followed by one Finished at the client;
\* end_of_stream is called on the model session only after every text that
\* arrived before the Eos was pushed to it, and a handler that wrote
\* Finished wrote every chunk the model session produced before it.
C16_LocalHappyPath ==
    /\ \A h \in Handlers :
          (IsLocal(h) /\ hd[h].pc = "stream" /\ hd[h].eos)
              ~> (hd[h].pc = "done" /\ AudioThenFinished(h))
    /\ [](\A h \in Handlers :
             IsLocal(h)
                 => /\ hd[h].eosCalled
                          => (hd[h].eos
                               /\ hd[h].delivered = BeforeEos(hd[h].arrived))
                    /\ FinishedBy(h) # {}
                          => (AudioThenFinished(h)
                               /\ Len(AudioSeq(h)) = Produced(hd[h])))

\* A Local session was started, pushed a text and its Eos, and ended with
\* two AudioData frames and its Finished.
C16_Witness ==
    \E h \in Handlers :
        /\ IsLocal(h) /\ hd[h].pc = "done"
        /\ Len(hd[h].delivered) = 1 /\ Len(AudioSeq(h)) = 2
        /\ AudioThenFinished(h)

\* The peer's frame Remote handler h's receive task takes next is a Finished
\* or an Error.
RelaysTerminal(h) ==
    /\ IsRemote(h) /\ hd[h].rcv = "run" /\ hd[h].mq # <<>>
    /\ Head(hd[h].mq) # NoneFrame /\ Terminal(Head(hd[h].mq))

\* C21: the step in which a Remote handler takes a Finished or an Error of
\* the peer writes it to the client, and a Remote handler that has written
\* one eventually is closed: its run task has ended and the session table
\* no longer holds it under its id.
C21_RemoteClosesOnTerminal ==
    /\ [][\A h \in Handlers :
             (RelaysTerminal(h) /\ RemoteReceive(h))
                 => Wrote(h, [Head(hd[h].mq) EXCEPT !.h = h])]_vars
    /\ \A h \in Handlers :
          (IsRemote(h) /\ TerminalFrames(h) # {})
              ~> (hd[h].pc \in {"done", "failed"}
                   /\ sessions[hd[h].conn][hd[h].sid] # h)

\* The steps of the tasks that a shutdown waits for: the read loop's last
\* step and the handlers' tasks, each of which eventually takes the step it
\* can take (a dial returns or raises).
ShutdownTasks ==
    \/ ReceiveLoopEnd("a")
    \/ LocalTasks
    \/ \E h \in Handlers : RemoteStep(h)

\* The worker with peers, while no transport to a peer closes, its tasks
\* scheduled fairly.
SpecShutdown == InitForward /\ [][Forwarding]_vars /\ WF_vars(ShutdownTasks)

\* Handler h is the table's entry for its id and has a run task.
Owned(h) ==
    /\ hd[h].kind # "free" /\ hd[h].pc # "norun"
    /\ sessions[hd[h].conn][hd[h].sid] = h

\* WebsocketConnection.wait_for_complete can return: the read loop ended
\* and no run task of the connection's handlers is still running.
wait_for_complete(c) ==
    /\ rl[c] = "done"
    /\ \A h \in Handlers :
          (hd[h].kind # "free" /\ hd[h].conn = c)
              => hd[h].pc \in {"norun", "done", "failed"}

RunFailed(h) == LocalRunStart(h) /\ hd'[h].pc = "done"

\* C29: the step in which a handler's run task fails writes exactly one
\* frame, Error "Internal error" under the handler's id, and leaves the
\* transport, the read loop and the other handlers as they were.
C29_FailureReported ==
    [][\A h \in Handlers :
          RunFailed(h)
              => /\ Wrote(h, ErrorFrame(h, "Internal error"))
                 /\ wsClosed' = wsClosed /\ rl' = rl
                 /\ \A g \in Handlers \ {h} : hd'[g] = hd[g]]_vars

\* The step is the read of a StartSession that the local check admits.
Admission(c, sid) == StartRead(c, sid) /\ can_accept_session

\* C30: an admission does not depend on the capacity report: whether the
\* report reaches the store or fails, the step registers a Local handler
\* whose run task is created, counts it, and leaves the transport open and
\* the read loop running.
C30_ReportFireAndForget ==
    [][\A c \in Conns, s \in Sids :
          Admission(c, s)
              => /\ hd'[nextH].kind = "local" /\ hd'[nextH].pc = "start"
                 /\ sessions'[c][s] = nextH
                 /\ hSessions' = add_session(hSessions)
                 /\ ~wsClosed'[c] /\ rl'[c] = "run"]_vars

\* C27: a StartSession read on a full public worker whose query for the
\* candidates fails is answered like one with no candidates, with Error
\* "No capacity"; the step leaves the transport open, the read loop running
\* and the handlers and the table of the other sessions as they were.
C27_QueryFailureDegrades ==
    [][\A c \in Conns, s \in Sids :
          StartQueryFails(c, s)
              => /\ out' = WsSend(out, c, s, NoCapacityFrame)
                 /\ wsClosed' = wsClosed /\ rl' = rl
                 /\ hd' = hd /\ sessions' = sessions]_vars

\* C28: on a worker with a password, every connection that exists was
\* upgraded from a request carrying Authorization: Bearer <password>, and
\* so was the connection of every session handler.
C28_PasswordRequired ==
    password # NoPassword
        => /\ \A c \in Conns :
                 rl[c] # "none" => req[c] = Authorization(password)
           /\ \A h \in Handlers :
                 hd[h].kind # "free"
                     => req[hd[h].conn] = Authorization(password)

\* The urls a list of the controller names.
Listed(q) == {q[i].url : i \in 1..Len(q)}

\* C23: get_available_servers is sorted by slack, largest first.
C23_RankedBySlack ==
    \A i, j \in 1..Len(get_available_servers) :
        i < j => Slack(get_available_servers[i]) >= Slack(get_available_servers[j])

\* C24: get_available_servers lists no worker whose latest report has
\* sessions >= max_sessions and lists every worker with sessions <
\* max_sessions whose report is at most T_stale old, each once and with its
\* latest report; get_all_servers lists every such worker whatever its
\* counters.
C24_AvailableHaveCapacity ==
    /\ \A i \in 1..Len(servers) :
          /\ servers[i].sessions >= servers[i].max_sessions
                => servers[i].url \notin Listed(get_available_servers)
          /\ (servers[i].sessions < servers[i].max_sessions
                /\ GetServerHealthResponse(servers[i]).age <= T_stale)
                => \E j \in 1..Len(get_available_servers) :
                      get_available_servers[j]
                          = GetServerHealthResponse(servers[i])
          /\ GetServerHealthResponse(servers[i]).age <= T_stale
                => \E j \in 1..Len(get_all_servers) :
                      get_all_servers[j] = GetServerHealthResponse(servers[i])
    /\ Cardinality(Listed(get_available_servers)) = Len(get_available_servers)

\* Two workers reported in the last T_stale seconds, one full and one with
\* a free slot: the first list has the second worker only, the other both.
C24_Witness ==
    /\ Len(servers) = 2
    /\ \A i \in 1..2 : GetServerHealthResponse(servers[i]).age <= T_stale
    /\ servers[1].sessions < servers[1].max_sessions
    /\ servers[2].sessions = servers[2].max_sessions
    /\ get_available_servers = <<GetServerHealthResponse(servers[1])>>
    /\ Listed(get_all_servers) = Workers

\* C25: neither list has a worker whose latest report is older than
\* T_stale.
C25_StaleHidden ==
    /\ \A i \in 1..Len(get_available_servers) :
          get_available_servers[i].age <= T_stale
    /\ \A i \in 1..Len(get_all_servers) : get_all_servers[i].age <= T_stale

\* C26: on a running controller the registry holds no entry older than
\* T_expire when the clock is read: the sweep has deleted it.
C26_ExpiredRemoved ==
    running
        => \A i \in 1..Len(servers) :
              GetServerHealthResponse(servers[i]).age <= T_expire

\* Remote handler h is dialing url u, or waits for u's lock, in the pool of
\* connection c.
Dialing(h, c, u) ==
    /\ IsRemote(h) /\ hd[h].conn = c /\ hd[h].pc = "dialing"
    /\ hd[h].cands[hd[h].ci] = u

WaitsFor(h, c, u) ==
    /\ IsRemote(h) /\ hd[h].conn = c /\ hd[h].pc = "cand"
    /\ hd[h].cands[hd[h].ci] = u

\* C31: in one pool at most one handler dials a url at a time, and it
\* holds the url's lock and the pool has no live connection to the url
\* (so no dial's result replaces a live connection); a handler that waited
\* for the lock and finds the connection made leases it without dialing;
\* and a handler whose next candidate has no live connection and a free
\* lock dials it, also after an earlier connection to it closed.
C31_SingleDial ==
    /\ [](\A c \in Conns, u \in Peers :
            /\ Cardinality({h \in Handlers : Dialing(h, c, u)}) <= 1
            /\ \A h \in Handlers :
                  Dialing(h, c, u) => (plock[c][u] = h /\ pconn[c][u] # "open"))
    /\ [][\A h \in Handlers, c \in Conns, u \in Peers :
             (WaitsFor(h, c, u) /\ RemoteLockFree(h) /\ pconn[c][u] = "open")
                 => /\ hd'[h].ci > hd[h].ci
                    /\ pconn' = pconn
                    /\ ~Dialing(h, c, u)']_vars
    /\ [][\A h \in Handlers :
             (/\ RemoteRun(h) \/ RemoteLockFree(h)
              /\ hd[h].ci <= Len(hd[h].cands)
              /\ pconn[hd[h].conn][hd[h].cands[hd[h].ci]] = "none"
              /\ plock[hd[h].conn][hd[h].cands[hd[h].ci]] = 0)
                 => Dialing(h, hd[h].conn, hd[h].cands[hd[h].ci])']_vars

\* While one handler dials p1, a second handler of the same connection
\* waits for p1's lock.
C31_Witness ==
    \E g, h \in Handlers :
        /\ g # h /\ Dialing(g, "a", "p1") /\ WaitsFor(h, "a", "p1")

\* The step is the pool of connection c reading a frame of session id sid
\* from the upstream connection to u.
UpstreamRead(c, u, sid) ==
    \/ PeerAudio(c, u, sid)
    \/ PeerFinished(c, u, sid)
    \/ PeerStray(c, u, sid)

\* C32: a frame read from an upstream connection changes only the handler
\* registered for the frame's session id, whose own id it is; the relay of
\* a frame writes it under the handler's session id and nowhere else; a
\* frame whose session id has no handle changes no handler and no client
\* stream; and no read closes the upstream connection.
C32_RoutedBySession ==
    /\ [](\A c \in Conns, s \in Sids :
             phl[c][s] # 0
                 => (hd[phl[c][s]].conn = c /\ hd[phl[c][s]].sid = s))
    /\ [][\A c \in Conns, u \in Peers, s \in Sids :
             UpstreamRead(c, u, s)
                 => /\ \A g \in Handlers :
                          hd'[g] # hd[g]
                              => (g = phl[c][s] /\ hd[g].conn = c /\ hd[g].sid = s)
                    /\ out' = out /\ pconn' = pconn]_vars
    /\ [][\A c \in Conns, u \in Peers, s \in Sids :
             PeerStray(c, u, s) => (hd' = hd /\ swl' = swl /\ phl' = phl)]_vars
    /\ [][\A h \in Handlers :
             RemoteReceive(h)
                 => \A c \in Conns, s \in Sids :
                       out'[c][s] # out[c][s]
                           => (c = hd[h].conn /\ s = hd[h].sid)]_vars

\* Two sessions forwarded over one upstream connection each got audio of
\* their own, and a frame for a session id without a handle was dropped
\* while the connection stayed open.
C32_Witness ==
    /\ dropped > 0 /\ pconn["a"]["p1"] = "open"
    /\ \E g, h \in Handlers :
          /\ g # h /\ IsRemote(g) /\ IsRemote(h)
          /\ hd[g].sid # hd[h].sid
          /\ hd[g].dest = "p1" /\ hd[h].dest = "p1"
          /\ AudioSeq(g) # <<>> /\ AudioSeq(h) # <<>>

\* Remote handler h's run has not sent the StartSession to a peer yet.
BeforeStart(h) == IsRemote(h) /\ hd[h].pc \in {"start", "cand", "dialing"}

\* The client's frames on h's input queue (the end marker left out).
Queued(h) == SelectSeq(hd[h].inq, LAMBDA m : m # NoneMsg)

\* C33: a Remote handler writes no PushText and no Eos to a peer before its
\* run has sent the StartSession; the frames that arrive meanwhile stay on
\* the input queue through the dial and the sending of the StartSession;
\* and while the run has not failed, the frames that arrived are those
\* written to the peer followed by those still queued, in order.
C33_StartFirst ==
    /\ [](\A h \in Handlers :
             /\ BeforeStart(h) => hd[h].delivered = <<>>
             /\ (IsRemote(h) /\ hd[h].pc \in {"start", "cand", "dialing", "relay"})
                   => hd[h].arrived = hd[h].delivered \o Queued(h))
    /\ [][\A h \in Handlers :
             (BeforeStart(h) /\ (RemoteRun(h) \/ RemoteDialed(h)))
                 => (hd'[h].inq = hd[h].inq /\ hd'[h].delivered = <<>>)]_vars

\* A PushText and the Eos arrived while the handler was dialing its peer.
C33_Witness ==
    \E h \in Handlers :
        /\ IsRemote(h) /\ hd[h].pc = "dialing"
        /\ hd[h].inq = <<PushMsg, EosMsg>>

\* Handler h has been closed: a Local handler's flag is set; close() of a
\* Remote handler, which has no flag, put the end marker on its input
\* queue, where it lies until the input loop takes it and run awaits the
\* receive task.
HasBeenClosed(h) ==
    \/ IsLocal(h) /\ hd[h].closed
    \/ /\ IsRemote(h)
       /\ \/ \E i \in 1..Len(hd[h].inq) : hd[h].inq[i] = NoneMsg
          \/ hd[h].pc = "join"

\* The step attempts a write to the client transport for handler h: a
\* frame of h's is appended to what the client reads, or h's receive task
\* dies in send_bytes on the closed transport.
WriteAttempt(h) ==
    \/ /\ Len(out'[hd[h].conn][hd[h].sid]) > Len(out[hd[h].conn][hd[h].sid])
       /\ out'[hd[h].conn][hd[h].sid][Len(out'[hd[h].conn][hd[h].sid])].h = h
    \/ IsRemote(h) /\ hd[h].rcv = "run" /\ hd'[h].rcv = "failed"

\* C34: a handler that has been closed, Local or Remote, attempts no write
\* to the client transport.
C34_NoWriteAfterClose ==
    [][\A h \in Handlers : HasBeenClosed(h) => ~WriteAttempt(h)]_vars

\* The step ends handler h's run task (_run_session's epilogue runs).
RunEnds(h) == IsLocal(h) /\ hd[h].pc # "done" /\ hd'[h].pc = "done"

\* C35: the step that ends a handler's run task leaves every table entry
\* that holds another handler as it was.
C35_RemovesOnlyItself ==
    [][\A h \in Handlers :
          RunEnds(h)
              => \A c \in Conns, s \in Sids :
                    sessions[c][s] # h => sessions'[c][s] = sessions[c][s]]_vars

\* C36: the read of an undecodable frame closes the connection's transport
\* and writes nothing, changes no handler and no table entry; the read
\* loop's last step then closes every handler in the connection's table,
\* and once the read loop has ended every handler in the table has been
\* closed, if its run task has not ended already.
C36_MalformedClosesConnection ==
    /\ [][\A c \in Conns :
             MalformedFrame(c)
                 => /\ wsClosed'[c] /\ out' = out
                    /\ hd' = hd /\ sessions' = sessions]_vars
    /\ [][\A c \in Conns :
             ReceiveLoopEnd(c)
                 => \A h \in Handlers :
                       (Owned(h) /\ hd[h].conn = c) => HasBeenClosed(h)']_vars
    /\ [](\A h \in Handlers :
             (Owned(h) /\ rl[hd[h].conn] = "done")
                 => (HasBeenClosed(h) \/ hd[h].pc \in {"done", "failed"}))

\* The client sent a StartSession and then an undecodable frame: the read
\* loop has ended, the session's handler got no frame, has been closed, and
\* nothing was written to the client.
C36_Witness ==
    /\ rl["a"] = "done" /\ nIn = LongRun - 1
    /\ \A s \in Sids : out["a"][s] = <<>>
    /\ \E h \in Handlers :
          /\ hd[h].kind # "free" /\ hd[h].conn = "a"
          /\ hd[h].arrived = <<>> /\ HasBeenClosed(h)

\* C37: when the teardown of a client connection is complete
\* (wait_for_complete can return), its pool holds no live connection to a
\* peer.
C37_UpstreamClosedAtTeardown ==
    \A c \in Conns :
        wait_for_complete(c) => \A u \in Peers : pconn[c][u] # "open"

\* The urls that have an entry in _servers.
ServerUrls(q) == {q[i].url : i \in 1..Len(q)}

\* At most one entry per url in q, and the times t have exactly q's urls.
OnePerUrl(q, t) ==
    /\ \A i, j \in 1..Len(q) : q[i].url = q[j].url => i = j
    /\ ServerUrls(q) = DOMAIN t

\* C38: update(report) is an upsert keyed by the url that sets the time to
\* now.  In every reachable state the registry holds at most one entry per
\* url and the report map and the time map have the same keys, and a sweep
\* run on that state (after any time has passed) keeps both; a report step
\* leaves the url's entry equal to the report with age 0 and leaves every
\* other entry and time as they were; and every entry of the registry is
\* either the one of the state before or the report just made, so that the
\* entry of a url is always its latest report.
C38_Upsert ==
    /\ [](/\ OnePerUrl(servers, server_updated_time)
          /\ \A k \in 0..5 :
                LET aged == [u \in DOMAIN server_updated_time |->
                                server_updated_time[u] + k * Elapse]
                    swept == cleanup_expired_servers(servers, aged)
                IN /\ OnePerUrl(swept.servers, swept.times)
                   /\ \A i \in 1..Len(swept.servers) :
                         \E j \in 1..Len(servers) :
                            swept.servers[i] = servers[j])
    /\ [][\A url \in Workers, s, m \in 0..MaxReport :
             update_server_health(url, s, m)
                => /\ \E i \in 1..Len(servers') :
                         servers'[i] = ServerHealth(url, s, m)
                   /\ server_updated_time'[url] = 0
                   /\ \A i \in 1..Len(servers) :
                         servers[i].url # url
                            => /\ servers'[i] = servers[i]
                               /\ server_updated_time'[servers[i].url]
                                     = server_updated_time[servers[i].url]]_vars
    /\ [][\A i \in 1..Len(servers') :
             \/ \E j \in 1..Len(servers) : servers'[i] = servers[j]
             \/ \E s, m \in 0..MaxReport :
                   /\ update_server_health(servers'[i].url, s, m)
                   /\ servers'[i] = ServerHealth(servers'[i].url, s, m)]_vars

\* Two workers are registered, and the first was reported again (its time is
\* now) after the second (whose time is older): the second report replaced
\* the first worker's entry where it stood.
C38_Witness ==
    /\ Len(servers) = 2
    /\ servers[1].url = "w1" /\ servers[2].url = "w2"
    /\ server_updated_time["w1"] = 0
    /\ server_updated_time["w2"] > 0

\* ------------------------------------------------- the sentence tokenizer
\* Text is a sequence of atoms: " " (whitespace), "." and "!" (the ends of
\* sentences), "<", "/", ">", and runs of letters (every other atom).
IsSpace(a) == a = " "
IsEnder(a) == a \in {".", "!"}
IsLetters(a) == a \notin {" ", ".", "!", "<", "/", ">"}

\* The class of an atom: " " is \s, a run of letters is [a-zA-Z]+.
Class(a) ==
    IF IsSpace(a) THEN "space"
    ELSE IF IsLetters(a) THEN "letters"
    ELSE a

\* The first index from i on whose atom is not of the class (Len(q) + 1:
\* none).
SkipWhile(q, i, class) ==
    CHOOSE k \in i..(Len(q) + 1) :
        /\ \A m \in i..(k - 1) : Class(q[m]) = class
        /\ k = Len(q) + 1 \/ Class(q[k]) # class

\* Where the letters of a tag at q[i] start: after "<\s*\/?\s*".
NameStart(q, i) ==
    LET j1 == SkipWhile(q, i + 1, "space")
        j2 == IF j1 <= Len(q) /\ q[j1] = "/" THEN j1 + 1 ELSE j1
    IN SkipWhile(q, j2, "space")

\* The pattern <\s*\/?\s*[a-zA-Z]+\s*> matched at q[i]: the index of its ">"
\* (0: no match).
TagEnd(q, i) ==
    IF q[i] # "<" THEN 0
    ELSE LET j3 == NameStart(q, i)
             j4 == SkipWhile(q, j3, "letters")
             j5 == SkipWhile(q, j4, "space")
         IN IF j4 > j3 /\ j5 <= Len(q) /\ q[j5] = ">" THEN j5 ELSE 0

\* The absent tag name.
None == <<>>

\* utils.get_tag_name: the letters of the tag the part starts with.
get_tag_name(part) ==
    IF part # <<>> /\ TagEnd(part, 1) > 0
    THEN SubSeq(part, NameStart(part, 1),
                SkipWhile(part, NameStart(part, 1), "letters") - 1)
    ELSE None

\* re.split with the tag pattern in a group: text, tag, text, ..., text.
RECURSIVE SplitFrom(_, _, _)
SplitFrom(q, i, cur) ==
    IF i > Len(q) THEN <<cur>>
    ELSE IF TagEnd(q, i) > 0
         THEN <<cur, SubSeq(q, i, TagEnd(q, i))>>
                 \o SplitFrom(q, TagEnd(q, i) + 1, <<>>)
         ELSE SplitFrom(q, i + 1, Append(cur, q[i]))

re_split(q) == SplitFrom(q, 1, <<>>)

\* str.startswith
startswith(part, prefix) ==
    /\ Len(part) >= Len(prefix)
    /\ SubSeq(part, 1, Len(prefix)) = prefix

\* str.strip
strip(q) ==
    LET first == SkipWhile(q, 1, "space")
        last == IF first > Len(q) THEN 0
                ELSE CHOOSE k \in first..Len(q) :
                        /\ ~IsSpace(q[k])
                        /\ \A m \in (k + 1)..Len(q) : IsSpace(q[m])
    IN SubSeq(q, first, last)

\* str.rstrip: the length that is left.
rstrip_len(q) ==
    CHOOSE k \in 0..Len(q) :
        /\ k = 0 \/ ~IsSpace(q[k])
        /\ \A m \in (k + 1)..Len(q) : IsSpace(q[m])

\* nltk's sent_tokenize from index start on: a sentence ends with an ender
\* that is followed by whitespace and a next token, where the next sentence
\* starts; the last sentence loses its trailing whitespace, and an empty
\* sentence is not returned.
RECURSIVE SentencesFrom(_, _)
SentencesFrom(q, start) ==
    LET breaks == {k \in start..Len(q) :
                     /\ IsEnder(q[k])
                     /\ k + 1 <= Len(q) /\ IsSpace(q[k + 1])
                     /\ SkipWhile(q, k + 1, "space") <= Len(q)}
    IN IF breaks = {}
       THEN IF rstrip_len(q) >= start
            THEN <<SubSeq(q, start, rstrip_len(q))>> ELSE <<>>
       ELSE LET k == CHOOSE b \in breaks : \A c \in breaks : b <= c
            IN <<SubSeq(q, start, k)>>
                  \o SentencesFrom(q, SkipWhile(q, k + 1, "space"))

sent_tokenize(q) == SentencesFrom(q, 1)

\* RunningTag
RunningTag(tag, text) == [tag |-> tag, content |-> text]

\* The loop of push over the parts from i on; running_tag is the last of
\* tags.
RECURSIVE Scan(_, _, _)
Scan(parts, i, tags) ==
    IF i > Len(parts) THEN tags
    ELSE LET part == parts[i]
         IN IF part = <<>> THEN Scan(parts, i + 1, tags)
            ELSE IF startswith(part, <<"<">>) /\ ~startswith(part, <<"<", "/">>)
            THEN Scan(parts, i + 1,
                      Append(tags, RunningTag(get_tag_name(part), <<>>)))
            ELSE IF startswith(part, <<"<", "/">>)
            THEN Scan(parts, i + 1, Append(tags, RunningTag(None, <<>>)))
            ELSE Scan(parts, i + 1,
                      [tags EXCEPT ![Len(tags)].content = part])

\* f"<{tag}>" and f"<{tag}>{sentence}</{tag}>"
OpenTag(tag) == <<"<">> \o tag \o <<">">>
Wrapped(tag, sentence) ==
    OpenTag(tag) \o sentence \o <<"<", "/">> \o tag \o <<">">>

\* The sentences of the tags before the last one, from tag i on.
RECURSIVE ClosedSentences(_, _)
ClosedSentences(tags, i) ==
    IF i >= Len(tags) THEN <<>>
    ELSE LET tokenized == sent_tokenize(tags[i].content)
         IN [k \in 1..Len(tokenized) |->
                IF tags[i].tag # None
                THEN Wrapped(tags[i].tag, tokenized[k])
                ELSE tokenized[k]]
            \o ClosedSentences(tags, i + 1)

\* SentenceSplitter.push: the sentences it returns and the buffer it leaves.
push(buf, chunk) ==
    LET parts == re_split(buf \o chunk)
        tags == Scan(parts, 1, <<RunningTag(None, <<>>)>>)
        last_running_tag == tags[Len(tags)]
        tokenized == sent_tokenize(last_running_tag.content)
        rest == IF Len(tokenized) > 0 THEN tokenized[Len(tokenized)]
                ELSE <<>>
    IN [sentences |->
            ClosedSentences(tags, 1)
            \o [k \in 1..(Len(tokenized) - 1) |->
                   IF last_running_tag.tag # None
                   THEN Wrapped(last_running_tag.tag, strip(tokenized[k]))
                   ELSE strip(tokenized[k])],
        buffer |->
            IF last_running_tag.tag # None
            THEN OpenTag(last_running_tag.tag) \o rest
            ELSE rest]

\* The texts that are split.
Passages ==
    { <<"Hello", " ", "world", ".", " ", "<", "happy", ">", "Good", "!",
        " ", "So", ".", "<", "/", "happy", ">">>,
      <<"<", "foo", ">", "partial", " ", "sentence">>,
      <<"ok", ".", " ", "test">>,
      <<"Hi", "!", " ", "<", "sad", ">", "no", ".", " ", "ok", "<", "/",
        "sad", ">", " ", "end">> }

\* A text is about to be pushed into a new SentenceSplitter.
InitSplitter ==
    /\ password = NoPassword
    /\ req = [c \in Conns |-> ""]
    /\ rl = [c \in Conns |-> "run"]
    /\ InitController
    /\ InitWorker
    /\ maxSessions = MaxCapacity
    /\ budget = MaxFrames
    /\ internal = [c \in Conns |-> c = "b"]
    /\ input \in Passages
    /\ pushed = <<>>
    /\ buffer = <<>>
    /\ returned = <<>>
    /\ eos_called = FALSE
    /\ content = <<>>
    /\ merged = NotMerged

\* PromptWindow.push_text with the next n atoms of the text.
SplitterPush(n) ==
    /\ ~eos_called
    /\ n \in 1..Len(input)
    /\ LET chunk == SubSeq(input, 1, n)
       IN /\ returned' = returned \o push(buffer, chunk).sentences
          /\ buffer' = push(buffer, chunk).buffer
          /\ pushed' = pushed \o chunk
          /\ input' = SubSeq(input, n + 1, Len(input))
    /\ UNCHANGED <<eos_called, content, merged, password, req, servers,
                   server_updated_time, running, cleanup_task, dropped,
                   maxSessions, budget, hSessions, hClosed, internal, wsClosed,
                   rl, sessions, out, hd, nextH, nIn, pvars>>

\* PromptWindow.eos / SentenceSplitter.eos, once the text is pushed.
SplitterEos ==
    /\ ~eos_called
    /\ input = <<>>
    /\ returned' = returned \o push(buffer, <<"<", "eos", ">">>).sentences
    /\ buffer' = <<>>
    /\ eos_called' = TRUE
    /\ UNCHANGED <<input, pushed, content, merged, password, req, servers,
                   server_updated_time, running, cleanup_task, dropped,
                   maxSessions, budget, hSessions, hClosed, internal, wsClosed,
                   rl, sessions, out, hd, nextH, nIn, pvars>>

NextSplitter ==
    \/ \E n \in 1..Len(input) : SplitterPush(n)
    \/ SplitterEos

SpecSplitter == InitSplitter /\ [][NextSplitter]_vars

\* The atoms of a text outside its tags, whitespace left out.
RECURSIVE TextParts(_, _)
TextParts(parts, i) ==
    IF i > Len(parts) THEN <<>>
    ELSE parts[i] \o TextParts(parts, i + 2)

Words(q) == SelectSeq(TextParts(re_split(q), 1), LAMBDA a : ~IsSpace(a))

\* All the sentences of a list, one after the other.
RECURSIVE Flat(_)
Flat(ss) == IF ss = <<>> THEN <<>> ELSE Head(ss) \o Flat(Tail(ss))

\* C39: whatever the chunks the text was pushed in, once eos has returned
\* the buffer is empty and nothing of the pushed text was lost or returned
\* twice: the sentences returned by the pushes and by eos hold, outside
\* their tags and whitespace aside, exactly the pushed text outside its
\* tags, in its order.
C39_NothingLostOrTwice ==
    eos_called
        => /\ buffer = <<>>
           /\ Words(Flat(returned)) = Words(pushed)

\* ------------------------------------------------------ merge_sentences
\* f"</{tag_name}>"
CloseTag(tag) == <<"<", "/">> \o tag \o <<">">>

\* A join that puts nothing between the contents.
RECURSIVE join_tight(_)
join_tight(cc) ==
    IF cc = <<>> THEN <<>> ELSE cc[1] \o join_tight(Tail(cc))

\* " ".join(current_content)
RECURSIVE join(_)
join(cc) ==
    IF cc = <<>> THEN <<>>
    ELSE IF Len(cc) = 1 THEN cc[1]
    ELSE cc[1] \o <<" ">> \o join(Tail(cc))

\* [part.strip() for part in parts if part.strip()], from part i on.
RECURSIVE Stripped(_, _)
Stripped(parts, i) ==
    IF i > Len(parts) THEN <<>>
    ELSE IF strip(parts[i]) = <<>> THEN Stripped(parts, i + 1)
    ELSE <<strip(parts[i])>> \o Stripped(parts, i + 1)

\* The look-ahead of merge_sentences for content and the closing tag.
LookAhead(parts, i, tag_name) ==
    /\ i + 2 <= Len(parts)
    /\ parts[i + 2] = CloseTag(tag_name)

\* The while loop of merge_sentences from part i on: what it leaves in
\* result, current_tag_name and current_content.
RECURSIVE MergeLoop(_, _, _, _, _)
MergeLoop(parts, i, result, current_tag_name, current_content) ==
    IF i > Len(parts)
    THEN [result |-> result, current_tag_name |-> current_tag_name,
          current_content |-> current_content]
    ELSE
    LET part == parts[i]
    IN IF startswith(part, <<"<">>) /\ ~startswith(part, <<"<", "/">>)
       THEN
         LET tag_name == get_tag_name(part)
             untagged == current_content # <<>> /\ current_tag_name = None
             r1 == IF untagged THEN Append(result, join(current_content))
                   ELSE result
             c1 == IF untagged THEN <<>> ELSE current_content
         IN IF /\ current_tag_name = tag_name /\ c1 # <<>>
               /\ LookAhead(parts, i, tag_name)
            THEN MergeLoop(parts, i + 3, r1, current_tag_name,
                           Append(c1, parts[i + 1]))
            ELSE
              LET different == /\ c1 # <<>> /\ current_tag_name # None
                               /\ current_tag_name # tag_name
                  r2 == IF different
                        THEN Append(r1, Wrapped(current_tag_name, join(c1)))
                        ELSE r1
                  c2 == IF different THEN <<>> ELSE c1
              IN IF LookAhead(parts, i, tag_name)
                 THEN MergeLoop(parts, i + 3, r2, tag_name, <<parts[i + 1]>>)
                 ELSE MergeLoop(parts, i + 1, Append(r2, part), tag_name, c2)
       ELSE IF startswith(part, <<"<">>)
       THEN MergeLoop(parts, i + 1,
                      IF current_tag_name = None THEN Append(result, part)
                      ELSE result,
                      current_tag_name, current_content)
       ELSE IF current_content # <<>> /\ current_tag_name # None
       THEN MergeLoop(parts, i + 1,
                      Append(result,
                             Wrapped(current_tag_name, join(current_content))),
                      None, <<part>>)
       ELSE IF current_content # <<>>
       THEN MergeLoop(parts, i + 1, result, current_tag_name,
                      Append(current_content, part))
       ELSE MergeLoop(parts, i + 1, result, current_tag_name, <<part>>)

\* The final join: no space between a part that ends with ">" and one that
\* starts with "<", one space otherwise.
RECURSIVE final_result(_, _)
final_result(result, j) ==
    IF j > Len(result) THEN <<>>
    ELSE (IF j = 1 THEN result[j]
          ELSE IF /\ result[j - 1][Len(result[j - 1])] = ">"
                  /\ startswith(result[j], <<"<">>)
               THEN result[j]
               ELSE <<" ">> \o result[j])
         \o final_result(result, j + 1)

\* sentence_merger.merge_sentences
merge_sentences(text) ==
    LET parts == Stripped(re_split(text), 1)
        st == MergeLoop(parts, 1, <<>>, None, <<>>)
        result ==
            IF st.current_content = <<>> THEN st.result
            ELSE IF st.current_tag_name # None
            THEN Append(st.result,
                        Wrapped(st.current_tag_name, join(st.current_content)))
            ELSE Append(st.result, join(st.current_content))
    IN IF text = <<>> \/ parts = <<>> THEN <<>>
       ELSE final_result(result, 1)

\* A segment: text under a tag, or plain text (tag None).
Segment(tag, text) == [tag |-> tag, text |-> text]

\* A segment as it is written.
Written(seg) ==
    IF seg.tag = None THEN seg.text ELSE Wrapped(seg.tag, seg.text)

\* The segments contents are made of.
SegmentKinds ==
    { Segment(<<"happy">>, <<"hello">>),
      Segment(<<"happy">>, <<"yo">>),
      Segment(<<"sad">>, <<"yo">>),
      Segment(<<"happy">>, <<"so", " ", "good">>),
      Segment(None, <<"between">>),
      Segment(None, <<"plain", " ", "text", " ", "here">>) }

\* The most segments in a content.
MaxSegments == 3

\* The segments written one after the other with sep between them.
RECURSIVE WrittenAll(_, _)
WrittenAll(segs, sep) ==
    IF Len(segs) = 1 THEN Written(segs[1])
    ELSE Written(segs[1]) \o sep \o WrittenAll(Tail(segs), sep)

\* The contents that are merged: up to MaxSegments segments, written with
\* or without a space between them.
Contents ==
    { WrittenAll(segs, sep) :
        segs \in UNION { [1..n -> SegmentKinds] : n \in 1..MaxSegments },
        sep \in { <<>>, <<" ">> } }

\* merge_sentences is about to be called with a content.
InitMerger ==
    /\ password = NoPassword
    /\ req = [c \in Conns |-> ""]
    /\ rl = [c \in Conns |-> "run"]
    /\ InitController
    /\ InitWorker
    /\ maxSessions = MaxCapacity
    /\ budget = MaxFrames
    /\ internal = [c \in Conns |-> c = "b"]
    /\ input = <<>>
    /\ pushed = <<>>
    /\ buffer = <<>>
    /\ returned = <<>>
    /\ eos_called = FALSE
    /\ content \in Contents
    /\ merged = NotMerged

\* PromptWindow.get_next_inference: merged = merge_sentences(...)
Merge ==
    /\ merged = NotMerged
    /\ merged' = merge_sentences(content)
    /\ UNCHANGED <<input, pushed, buffer, returned, eos_called, content,
                   password, req, servers, server_updated_time, running,
                   cleanup_task, dropped, maxSessions, budget, hSessions,
                   hClosed, internal, wsClosed, rl, sessions, out, hd, nextH,
                   nIn, pvars>>

NextMerger == Merge

SpecMerger == InitMerger /\ [][NextMerger]_vars

\* The segments a well-formed text is written in, read from part i of its
\* re.split on: plain text between tags (whitespace around it aside) and
\* tag, text, closing tag.  <<"?">> where the text is not well-formed.
RECURSIVE SegmentsFrom(_, _)
SegmentsFrom(parts, i) ==
    LET plain == IF strip(parts[i]) = <<>> THEN <<>>
                 ELSE <<Segment(None, strip(parts[i]))>>
    IN IF i = Len(parts) THEN plain
       ELSE IF /\ i + 4 <= Len(parts)
               /\ get_tag_name(parts[i + 1]) # None
               /\ parts[i + 2] # <<>>
               /\ parts[i + 3] = CloseTag(get_tag_name(parts[i + 1]))
            THEN plain
                 \o <<Segment(get_tag_name(parts[i + 1]), parts[i + 2])>>
                 \o SegmentsFrom(parts, i + 4)
            ELSE <<"?">>

Segments(q) == SegmentsFrom(re_split(q), 1)

\* Adjacent segments under the same tag made one, their texts joined by a
\* single space; every other segment as it is.
RECURSIVE MergedSegments(_)
MergedSegments(segs) ==
    IF Len(segs) <= 1 THEN segs
    ELSE LET rest == MergedSegments(Tail(segs))
         IN IF segs[1].tag # None /\ rest[1].tag = segs[1].tag
            THEN <<Segment(segs[1].tag,
                           segs[1].text \o <<" ">> \o rest[1].text)>>
                 \o Tail(rest)
            ELSE <<segs[1]>> \o rest

\* C40: the result of merge_sentences is written in the segments of the
\* content, in their order, with every run of adjacent segments under the
\* same tag made one segment under that tag whose text is theirs joined by
\* single spaces; segments under different tags or with plain text between
\* them stay apart, no segment's text is dropped, and a content without
\* tags is returned unchanged.
C40_MergesAdjacentSameTag ==
    merged # NotMerged
        => /\ Segments(merged) = MergedSegments(Segments(content))
           /\ (\A i \in 1..Len(content) : content[i] # "<")
                 => merged = content

\* Two segments under the same tag with a space between them, followed by
\* plain text, were merged into one segment and the plain text.
C40_Witness ==
    /\ content = <<"<", "happy", ">", "hello", "<", "/", "happy", ">", " ",
                   "<", "happy", ">", "yo", "<", "/", "happy", ">", " ",
                   "between">>
    /\ merged = <<"<", "happy", ">", "hello", " ", "yo", "<", "/", "happy",
                  ">", " ", "between">>
====
